---- MODULE Spec2Model ----
(***************************************************************************)
(* A model of middl's pipeline engine (src/src/middl/core): the Middleware *)
(* field contract and its _validate, Pipeline.__init__ / validate / run,   *)
(* PipelineWrapper, and the loaders a run consumes.                        *)
(*                                                                         *)
(* Python sets are objects: `heap` holds them and every variable of the    *)
(* code that names a set holds a reference (an index into heap), so that   *)
(* copying (set(x)) and aliasing are what the code makes them.             *)
(***************************************************************************)
EXTENDS Integers, Sequences, FiniteSets, TLC

VARIABLES heap, pipes, loaders, pc, vargs, vres, state, stack, trace, rargs, exc

\* ------------------------------------------------------------------------
\* Bounds of the model
\* ------------------------------------------------------------------------

\* Middlewares in the outer pipeline.
MaxMw == 2

\* Middlewares in the pipeline embedded through a PipelineWrapper.
MaxInner == 1

\* What a set-up declares beyond plain default middlewares: the field names
\* in all (contract, argument and loader) sets together, the keys of the
\* caller's state, the middlewares of a class other than the default one, the
\* PipelineWrappers, and twice the middlewares whose wrap does more than call
\* next_step.
MaxDeclared == 3

\* ------------------------------------------------------------------------
\* Names
\* ------------------------------------------------------------------------

\* The outer and the inner Pipeline object.
Outer == 1

Inner == 2

NumKey(step_name) == "num_" \o step_name \o "s"

DefaultStepName == "step"

DataNames == {"a", "b"}

SimpleType == "_SimpleMiddleware"

PlainTypes == {"_SimpleMiddleware", "AccMiddleware"}

WrapperType == "PipelineWrapper"

\* References of the sets that exist before any middleware is made: the two
\* sets a caller of validate passes, and the data_fields of the two loaders.
ArgStateRef == 1

ArgDataRef == 2

LoaderRef(l) == 2 + l

\* ------------------------------------------------------------------------
\* Sets as heap objects
\* ------------------------------------------------------------------------

\* set(): a new empty set object.
NewSet(h) == [heap |-> Append(h, {}), ref |-> Len(h) + 1]

SetCopyAlias(h, r) == [heap |-> h, ref |-> r]

\* set(x): a new set object with the elements of x.
SetCopy(h, r) == [heap |-> Append(h, h[r]), ref |-> Len(h) + 1]

\* s.add(e) / s.update(t): in place.
SetUpdate(h, r, elems) == [h EXCEPT ![r] = @ \cup elems]

\* ------------------------------------------------------------------------
\* Middleware, PipelineWrapper and loader objects
\* ------------------------------------------------------------------------

\* The body of the function a middleware's wrap returns: whether it calls
\* next_step, and the control signal it raises ("none", "skip" or "abort"),
\* when state[step_name] is `at`, before or after the call of next_step.
\* _SimpleMiddleware's body only calls next_step.
SimpleWrap == [calls_next |-> TRUE, signal |-> "none", at |-> 0, when |-> "before"]

\* Middleware.__init__: five empty sets.  The wrapper fields are 0 for a
\* middleware that is not a PipelineWrapper.  on_start is the set of state
\* keys the class's on_start writes: none for the base class's hook.
NewMiddleware(h, type) ==
    LET base == Len(h)
    IN [heap |-> h \o <<{}, {}, {}, {}, {}>>,
        mw |-> [type |-> type,
                requires_state_fields |-> base + 1,
                requires_data_fields_pre |-> base + 2,
                provides_data_fields_pre |-> base + 3,
                requires_data_fields_post |-> base + 4,
                provides_data_fields_post |-> base + 5,
                wrap |-> SimpleWrap,
                on_start |-> {},
                pipeline |-> 0,
                data_loader |-> 0]]

\* PipelineWrapper.__init__: super().__init__(), then the pipeline and loader.
NewPipelineWrapper(h, pipeline, data_loader) ==
    LET m == NewMiddleware(h, WrapperType)
    IN [m EXCEPT !.mw.pipeline = pipeline, !.mw.data_loader = data_loader]

IsWrapper(mw) == mw.type = WrapperType

\* isinstance(data_loader, Sized)
IsSized(l) == loaders[l].sized

Reversed(s) == [i \in 1..Len(s) |-> s[Len(s) + 1 - i]]

\* ------------------------------------------------------------------------
\* Validation
\* ------------------------------------------------------------------------
\* A validation works on an environment [heap, log, err]: the heap, the list
\* of the _validate calls Pipeline.validate has made, and
\* the exception in flight: err.raised, the "Validation error by middleware
\* <type>, at index <i>." frames from the outermost in, and the innermost
\* "Missing ... fields" error.

NoError == [raised |-> FALSE, frames |-> <<>>, kind |-> "", missing |-> {}]

Missing(kind, fields) == [raised |-> TRUE, frames |-> <<>>, kind |-> kind, missing |-> fields]

\* raise ValidationError(msg) from e
RaiseFrom(e, type, index) == [e EXCEPT !.frames = <<[type |-> type, index |-> index]>> \o @]

\* The call logged last has evaluated self.requires_state_fields.issubset(state_fields).
StateChecked(env) == [env EXCEPT !.log[Len(env.log)].state_checked = TRUE]

MiddlewareValidateChecksStateInPreOnly(env, mw, state_fields, data_fields, pre) ==
    LET h == env.heap
    IN IF pre
       THEN IF ~(h[mw.requires_state_fields] \subseteq h[state_fields])
            THEN [StateChecked(env) EXCEPT !.err = Missing("state", h[mw.requires_state_fields] \ h[state_fields])]
            ELSE IF ~(h[mw.requires_data_fields_pre] \subseteq h[data_fields])
                 THEN [StateChecked(env) EXCEPT !.err = Missing("data pre", h[mw.requires_data_fields_pre] \ h[data_fields])]
                 ELSE [StateChecked(env) EXCEPT !.heap = SetUpdate(h, data_fields, h[mw.provides_data_fields_pre])]
       ELSE IF ~(h[mw.requires_data_fields_post] \subseteq h[data_fields])
            THEN [env EXCEPT !.err = Missing("data post", h[mw.requires_data_fields_post] \ h[data_fields])]
            ELSE [env EXCEPT !.heap = SetUpdate(h, data_fields, h[mw.provides_data_fields_post])]

MiddlewareValidateRequiresExactData(env, mw, state_fields, data_fields, pre) ==
    LET h == env.heap
        checked == StateChecked(env)
    IN IF ~(h[mw.requires_state_fields] \subseteq h[state_fields])
       THEN [checked EXCEPT !.err = Missing("state", h[mw.requires_state_fields] \ h[state_fields])]
       ELSE IF pre
            THEN IF h[mw.requires_data_fields_pre] # h[data_fields]
                 THEN [checked EXCEPT !.err = Missing("data pre", h[mw.requires_data_fields_pre] \ h[data_fields])]
                 ELSE [checked EXCEPT !.heap = SetUpdate(h, data_fields, h[mw.provides_data_fields_pre])]
            ELSE IF ~(h[mw.requires_data_fields_post] \subseteq h[data_fields])
                 THEN [checked EXCEPT !.err = Missing("data post", h[mw.requires_data_fields_post] \ h[data_fields])]
                 ELSE [checked EXCEPT !.heap = SetUpdate(h, data_fields, h[mw.provides_data_fields_post])]

\* Middleware._validate: the state fields, whatever pre is; then the data
\* fields of the pass.
MiddlewareValidate(env, mw, state_fields, data_fields, pre) ==
    LET h == env.heap
        checked == StateChecked(env)
    IN IF ~(h[mw.requires_state_fields] \subseteq h[state_fields])
       THEN [checked EXCEPT !.err = Missing("state", h[mw.requires_state_fields] \ h[state_fields])]
       ELSE IF pre
            THEN IF ~(h[mw.requires_data_fields_pre] \subseteq h[data_fields])
                 THEN [checked EXCEPT !.err = Missing("data pre", h[mw.requires_data_fields_pre] \ h[data_fields])]
                 ELSE [checked EXCEPT !.heap = SetUpdate(h, data_fields, h[mw.provides_data_fields_pre])]
            ELSE IF ~(h[mw.requires_data_fields_post] \subseteq h[data_fields])
                 THEN [checked EXCEPT !.err = Missing("data post", h[mw.requires_data_fields_post] \ h[data_fields])]
                 ELSE [checked EXCEPT !.heap = SetUpdate(h, data_fields, h[mw.provides_data_fields_post])]

RECURSIVE PipelineValidate(_, _, _, _, _)
RECURSIVE ForwardPass(_, _, _, _, _)
RECURSIVE BackwardPass(_, _, _, _, _)

\* PipelineWrapper._validate
PipelineWrapperValidate(env, mw, state_fields, data_fields, pre) ==
    IF pre
    THEN PipelineValidate(env, mw.pipeline, state_fields, loaders[mw.data_loader].data_fields, IsSized(mw.data_loader))
    ELSE env

\* mware._validate(...): the method of the middleware's class.
CallValidate(env, mw, state_fields, data_fields, pre) ==
    IF IsWrapper(mw)
    THEN PipelineWrapperValidate(env, mw, state_fields, data_fields, pre)
    ELSE MiddlewareValidate(env, mw, state_fields, data_fields, pre)

\* One entry per _validate call: who is checked, the sets it is checked
\* against, and whether the call has checked the state fields (not yet).
Logged(env, p, index, pre, state_fields, data_fields) ==
    [env EXCEPT !.log = Append(@, [pipe |-> p, index |-> index, pre |-> pre, state |-> env.heap[state_fields], data |-> env.heap[data_fields], state_checked |-> FALSE])]

RECURSIVE ForwardPassCountsFromOne(_, _, _, _, _)
ForwardPassCountsFromOne(env, p, state_fields, data_fields, i) ==
    IF i >= Len(pipes[p].middlewares)
    THEN env
    ELSE LET mware == pipes[p].middlewares[i + 1]
             r == CallValidate(Logged(env, p, i, TRUE, state_fields, data_fields), mware, state_fields, data_fields, TRUE)
         IN IF r.err.raised
            THEN [r EXCEPT !.err = RaiseFrom(@, mware.type, i + 1)]
            ELSE ForwardPassCountsFromOne(r, p, state_fields, data_fields, i + 1)

RECURSIVE ForwardPassDropsCause(_, _, _, _, _)
ForwardPassDropsCause(env, p, state_fields, data_fields, i) ==
    IF i >= Len(pipes[p].middlewares)
    THEN env
    ELSE LET mware == pipes[p].middlewares[i + 1]
             r == CallValidate(Logged(env, p, i, TRUE, state_fields, data_fields), mware, state_fields, data_fields, TRUE)
         IN IF r.err.raised
            THEN [r EXCEPT !.err.frames = <<[type |-> mware.type, index |-> i]>>]
            ELSE ForwardPassDropsCause(r, p, state_fields, data_fields, i + 1)

\* Pipeline.validate, the loop over enumerate(self.middlewares) from index i.
ForwardPass(env, p, state_fields, data_fields, i) ==
    IF i >= Len(pipes[p].middlewares)
    THEN env
    ELSE LET mware == pipes[p].middlewares[i + 1]
             r == CallValidate(Logged(env, p, i, TRUE, state_fields, data_fields), mware, state_fields, data_fields, TRUE)
         IN IF r.err.raised
            THEN [r EXCEPT !.err = RaiseFrom(@, mware.type, i)]
            ELSE ForwardPass(r, p, state_fields, data_fields, i + 1)

RECURSIVE BackwardPassInGivenOrder(_, _, _, _, _)
BackwardPassInGivenOrder(env, p, state_fields, data_fields, i) ==
    IF i >= Len(pipes[p].middlewares)
    THEN env
    ELSE LET mware == pipes[p].middlewares[i + 1]
             r == CallValidate(Logged(env, p, i, FALSE, state_fields, data_fields), mware, state_fields, data_fields, FALSE)
         IN IF r.err.raised
            THEN [r EXCEPT !.err = RaiseFrom(@, mware.type, i)]
            ELSE BackwardPassInGivenOrder(r, p, state_fields, data_fields, i + 1)

RECURSIVE BackwardPassReportsPosition(_, _, _, _, _)
BackwardPassReportsPosition(env, p, state_fields, data_fields, i) ==
    IF i >= Len(pipes[p].middlewares)
    THEN env
    ELSE LET mware == Reversed(pipes[p].middlewares)[i + 1]
             ind == Len(pipes[p].middlewares) - i - 1
             r == CallValidate(Logged(env, p, ind, FALSE, state_fields, data_fields), mware, state_fields, data_fields, FALSE)
         IN IF r.err.raised
            THEN [r EXCEPT !.err = RaiseFrom(@, mware.type, i)]
            ELSE BackwardPassReportsPosition(r, p, state_fields, data_fields, i + 1)

\* Pipeline.validate, the loop over enumerate(reversed(self.middlewares)).
BackwardPass(env, p, state_fields, data_fields, i) ==
    IF i >= Len(pipes[p].middlewares)
    THEN env
    ELSE LET mware == Reversed(pipes[p].middlewares)[i + 1]
             ind == Len(pipes[p].middlewares) - i - 1
             r == CallValidate(Logged(env, p, ind, FALSE, state_fields, data_fields), mware, state_fields, data_fields, FALSE)
         IN IF r.err.raised
            THEN [r EXCEPT !.err = RaiseFrom(@, mware.type, ind)]
            ELSE BackwardPass(r, p, state_fields, data_fields, i + 1)

PipelineValidateAlwaysAddsCount(env, p, state_fields, data_fields, sized_data_loader) ==
    LET d == SetCopy(env.heap, data_fields)
        s == SetCopy(d.heap, state_fields)
        h2 == SetUpdate(s.heap, s.ref, {pipes[p].step_name, NumKey(pipes[p].step_name)})
        fwd == ForwardPass([env EXCEPT !.heap = h2], p, s.ref, d.ref, 0)
    IN IF fwd.err.raised THEN fwd ELSE BackwardPass(fwd, p, s.ref, d.ref, 0)

PipelineValidateBackwardOnGivenState(env, p, state_fields, data_fields, sized_data_loader) ==
    LET d == SetCopy(env.heap, data_fields)
        s == SetCopy(d.heap, state_fields)
        h1 == SetUpdate(s.heap, s.ref, {pipes[p].step_name})
        h2 == IF sized_data_loader THEN SetUpdate(h1, s.ref, {NumKey(pipes[p].step_name)}) ELSE h1
        fwd == ForwardPass([env EXCEPT !.heap = h2], p, s.ref, d.ref, 0)
    IN IF fwd.err.raised THEN fwd ELSE BackwardPass(fwd, p, state_fields, d.ref, 0)

PipelineValidateForwardOnly(env, p, state_fields, data_fields, sized_data_loader) ==
    LET d == SetCopy(env.heap, data_fields)
        s == SetCopy(d.heap, state_fields)
        h1 == SetUpdate(s.heap, s.ref, {pipes[p].step_name})
        h2 == IF sized_data_loader THEN SetUpdate(h1, s.ref, {NumKey(pipes[p].step_name)}) ELSE h1
    IN ForwardPass([env EXCEPT !.heap = h2], p, s.ref, d.ref, 0)

\* Pipeline.validate
PipelineValidate(env, p, state_fields, data_fields, sized_data_loader) ==
    LET d == SetCopy(env.heap, data_fields)
        s == SetCopy(d.heap, state_fields)
        h1 == SetUpdate(s.heap, s.ref, {pipes[p].step_name})
        h2 == IF sized_data_loader THEN SetUpdate(h1, s.ref, {NumKey(pipes[p].step_name)}) ELSE h1
        fwd == ForwardPass([env EXCEPT !.heap = h2], p, s.ref, d.ref, 0)
    IN IF fwd.err.raised THEN fwd ELSE BackwardPass(fwd, p, s.ref, d.ref, 0)

\* What a call of validate leaves behind, its own (unreachable) copies dropped.
ValidateCall(h, p, state_fields, data_fields, sized) ==
    LET r == PipelineValidate([heap |-> h, log |-> <<>>, err |-> NoError], p, state_fields, data_fields, sized)
    IN [heap |-> SubSeq(r.heap, 1, Len(h)), log |-> r.log, err |-> r.err]

\* ------------------------------------------------------------------------
\* Pipeline construction
\* ------------------------------------------------------------------------
\* A processing step (a closure) is the list of the middlewares it runs, its
\* own first and its next_step after it; the empty list is _empty_sink.

EmptySink == <<>>

\* mware.wrap(next_step), for the middleware at index i (from 1) of its list.
Wrap(i, next_step) == <<i>> \o next_step

RECURSIVE WrapAll(_, _)
\* for mware in reversed(self.middlewares): self._run = mware.wrap(self._run)
WrapAll(order, run) ==
    IF order = <<>> THEN run ELSE WrapAll(Tail(order), Wrap(Head(order), run))

NewPipelineWrapsSinkOnly(middlewares, step_name) ==
    [middlewares |-> middlewares,
     step_name |-> step_name,
     run |-> IF middlewares = <<>> THEN EmptySink ELSE Wrap(1, EmptySink)]

NewPipelineWrapsInGivenOrder(middlewares, step_name) ==
    [middlewares |-> middlewares,
     step_name |-> step_name,
     run |-> WrapAll([i \in 1..Len(middlewares) |-> i], EmptySink)]

\* Pipeline.__init__
NewPipeline(middlewares, step_name) ==
    [middlewares |-> middlewares,
     step_name |-> step_name,
     run |-> WrapAll(Reversed([i \in 1..Len(middlewares) |-> i]), EmptySink)]

\* ------------------------------------------------------------------------
\* Set-up: the objects a caller makes before it validates or runs
\* ------------------------------------------------------------------------

RECURSIVE SumCard(_, _)
SumCard(h, i) == IF i > Len(h) THEN 0 ELSE Cardinality(h[i]) + SumCard(h, i + 1)

NonDefaultTypes(p) == Cardinality({i \in 1..Len(pipes[p].middlewares) : pipes[p].middlewares[i].type \notin {SimpleType, WrapperType}})

Wrappers == {i \in 1..Len(pipes[Outer].middlewares) : IsWrapper(pipes[Outer].middlewares[i])}

HasWrapper == Wrappers # {}

OwnWraps(p) == Cardinality({i \in 1..Len(pipes[p].middlewares) : pipes[p].middlewares[i].wrap # SimpleWrap})

OwnHooks(p) == Cardinality(UNION {{<<i, key>> : key \in pipes[p].middlewares[i].on_start} : i \in 1..Len(pipes[p].middlewares)})

Declared == SumCard(heap, 1) + NonDefaultTypes(Outer) + NonDefaultTypes(Inner) + Cardinality(Wrappers) + Cardinality(DOMAIN state) + 2 * (OwnWraps(Outer) + OwnWraps(Inner)) + OwnHooks(Outer) + OwnHooks(Inner)

\* A list of middlewares not yet given to Pipeline(...).
NoPipeline == [middlewares |-> <<>>, step_name |-> DefaultStepName, run |-> EmptySink]

NoResult == [heap |-> <<>>, log |-> <<>>, err |-> NoError]

NoArgs == [sized |-> FALSE, heap |-> <<>>]

\* The value of every key the caller's state holds before run.
CallerValue == 99

\* A dict, as the function from its keys to their values.
EmptyDict == [k \in {} |-> 0]

DictSet(d, key, value) == [k \in DOMAIN d \cup {key} |-> IF k = key THEN value ELSE d[k]]

Range(seq) == {seq[i] : i \in 1..Len(seq)}

\* wrap_iterable(batches, data_fields): the names as given, and the source's
\* batches, each a tuple of values; sized when the source has a length.
WrapIterable(sized, batches, data_fields, l) ==
    [sized |-> sized, num_steps |-> Len(batches), data_fields |-> LoaderRef(l), data_fields_seq |-> data_fields, batches |-> batches]

\* A loader without data fields: EmptyLoader(num_steps) when sized, else
\* wrap_iterable over a generator of num_steps empty tuples, without names.
NewLoader(sized, num_steps, l) == WrapIterable(sized, [k \in 1..num_steps |-> <<>>], <<>>, l)

\* wrap_iterable over batches of which the one of index k (if any) has one
\* value more than there are names.
WithMismatch(loader, k) == IF k \in 0..(loader.num_steps - 1) THEN [loader EXCEPT !.batches[k + 1] = Append(@, 0)] ELSE loader

\* dict(zip(names, batch)): each name keyed to the value at its position, as
\* far as the shorter of the two goes; of two pairs with the same name the
\* later one stays.
Zip(names, batch) ==
    LET n == IF Len(names) < Len(batch) THEN Len(names) ELSE Len(batch)
    IN [name \in {names[i] : i \in 1..n} |->
           batch[CHOOSE i \in 1..n : names[i] = name /\ \A j \in (i + 1)..n : names[j] # name]]

YieldsTruncating(loader, k) ==
    [ok |-> TRUE, data |-> Zip(loader.data_fields_seq, loader.batches[k + 1])]

\* What the loader's iterator does for the batch of index k:
\* dict(zip(self.data_fields_seq, batch, strict=True)) raises ValueError when
\* the lengths differ, else the dict is yielded.
Yields(loader, k) ==
    [ok |-> Len(loader.batches[k + 1]) = Len(loader.data_fields_seq),
     data |-> Zip(loader.data_fields_seq, loader.batches[k + 1])]

InitObjects(outerLoader, innerLoader) ==
    /\ heap = <<{}, {}, Range(outerLoader.data_fields_seq), Range(innerLoader.data_fields_seq)>>
    /\ pipes = <<NoPipeline, NoPipeline>>
    /\ loaders = <<outerLoader, innerLoader>>
    /\ pc = "setup"
    /\ vargs = NoArgs
    /\ vres = NoResult
    /\ state = EmptyDict
    /\ stack = <<>>
    /\ trace = <<>>
    /\ rargs = [validate |-> TRUE, state |-> EmptyDict]
    /\ exc = ""

\* mw = SomeMiddleware(), appended to the list of pipeline p.
AddMiddleware(p, type) ==
    /\ pc = "setup"
    /\ Len(pipes[p].middlewares) < (IF p = Outer THEN MaxMw ELSE MaxInner)
    /\ IF p = Outer THEN pipes[Inner].middlewares = <<>> ELSE HasWrapper
    /\ type # SimpleType => Declared < MaxDeclared
    /\ LET m == NewMiddleware(heap, type)
       IN /\ heap' = m.heap
          /\ pipes' = [pipes EXCEPT ![p].middlewares = Append(@, m.mw)]
    /\ UNCHANGED <<loaders, pc, vargs, vres, state, stack, trace, rargs, exc>>

\* PipelineWrapper(inner_pipeline, inner_loader), appended to the outer list.
AddWrapper ==
    /\ pc = "setup"
    /\ Len(pipes[Outer].middlewares) < MaxMw
    /\ pipes[Inner].middlewares = <<>>
    /\ ~HasWrapper
    /\ Declared < MaxDeclared
    /\ LET m == NewPipelineWrapper(heap, Inner, Inner)
       IN /\ heap' = m.heap
          /\ pipes' = [pipes EXCEPT ![Outer].middlewares = Append(@, m.mw)]
    /\ UNCHANGED <<loaders, pc, vargs, vres, state, stack, trace, rargs, exc>>

\* mw.<field> gets one more name (the tests assign the whole set).
Declare(p, i, field, name) ==
    /\ pc = "setup"
    /\ i \in 1..Len(pipes[p].middlewares)
    /\ ~IsWrapper(pipes[p].middlewares[i])
    /\ Declared < MaxDeclared
    /\ name \notin heap[pipes[p].middlewares[i][field]]
    /\ heap' = SetUpdate(heap, pipes[p].middlewares[i][field], {name})
    /\ UNCHANGED <<pipes, loaders, pc, vargs, vres, state, stack, trace, rargs, exc>>

\* One more name in a set the caller owns: an argument of validate, or the
\* data_fields of a loader.
DeclareOwned(ref, name) ==
    /\ pc = "setup"
    /\ Declared < MaxDeclared
    /\ name \notin heap[ref]
    /\ heap' = SetUpdate(heap, ref, {name})
    /\ UNCHANGED <<pipes, loaders, pc, vargs, vres, state, stack, trace, rargs, exc>>

\* Pipeline(inner_list), then Pipeline(outer_list, step_name).
Construct(step_name) ==
    /\ pc = "setup"
    /\ pipes' = <<NewPipeline(pipes[Outer].middlewares, step_name),
                  NewPipeline(pipes[Inner].middlewares, DefaultStepName)>>
    /\ pc' = "ready"
    /\ UNCHANGED <<heap, loaders, vargs, vres, state, stack, trace, rargs, exc>>

\* pipe.validate(state_fields, data_fields, sized_data_loader=sized); vargs keeps
\* what the caller passed: the flag and the sets as they were at the call.
Validate(sized) ==
    /\ pc = "ready"
    /\ LET r == ValidateCall(heap, Outer, ArgStateRef, ArgDataRef, sized)
       IN /\ heap' = r.heap
          /\ vres' = r
    /\ vargs' = [sized |-> sized, heap |-> heap]
    /\ pc' = "validated"
    /\ UNCHANGED <<pipes, loaders, state, stack, trace, rargs, exc>>

\* The caller's state dict has `key` before run is called.
DeclareState(key) ==
    /\ pc = "setup"
    /\ Declared < MaxDeclared
    /\ key \notin DOMAIN state
    /\ state' = DictSet(state, key, CallerValue)
    /\ UNCHANGED <<heap, pipes, loaders, pc, vargs, vres, stack, trace, rargs, exc>>

\* The class of the middleware at index i defines the wrapped function `body`.
DefineWrap(p, i, body) ==
    /\ pc = "setup"
    /\ i \in 1..Len(pipes[p].middlewares)
    /\ ~IsWrapper(pipes[p].middlewares[i])
    /\ pipes[p].middlewares[i].wrap = SimpleWrap
    /\ body # SimpleWrap
    /\ Declared + 1 < MaxDeclared
    /\ pipes' = [pipes EXCEPT ![p].middlewares[i].wrap = body]
    /\ UNCHANGED <<heap, loaders, pc, vargs, vres, state, stack, trace, rargs, exc>>

\* The class of the middleware at index i overrides on_start, which sets
\* state[key].
DefineOnStart(p, i, key) ==
    /\ pc = "setup"
    /\ i \in 1..Len(pipes[p].middlewares)
    /\ ~IsWrapper(pipes[p].middlewares[i])
    /\ Declared < MaxDeclared
    /\ key \notin pipes[p].middlewares[i].on_start
    /\ pipes' = [pipes EXCEPT ![p].middlewares[i].on_start = @ \cup {key}]
    /\ UNCHANGED <<heap, loaders, pc, vargs, vres, state, stack, trace, rargs, exc>>

\* ------------------------------------------------------------------------
\* Pipeline.run
\* ------------------------------------------------------------------------
\* The call stack holds a frame per call in progress, the innermost last: a
\* frame of Pipeline.run (its place `at`, the index i of the hook loops, the
\* counter `step` of enumerate(data_loader)) or of a processing step (the
\* closure `chain` being run, before or after its call of next_step).
\* `trace` lists what has happened, each event with the pipeline, the
\* middleware index (-1 when none) and the value of state[step_name] then.

Top == stack[Len(stack)]

Below == SubSeq(stack, 1, Len(stack) - 1)

NumMiddlewares(p) == Len(pipes[p].middlewares)

\* state[step_name], -1 when the key is absent.
StepOf(st, p) == IF pipes[p].step_name \in DOMAIN st THEN st[pipes[p].step_name] ELSE -1

Event(ev, p, i, st) == [ev |-> ev, pipe |-> p, i |-> i, step |-> StepOf(st, p)]

\* Where run goes on after a loop over the middlewares' hooks.
AfterHooks(p, at) ==
    IF at = "on_start"
    THEN IF NumMiddlewares(p) = 0 THEN "sized" ELSE "on_start"
    ELSE IF NumMiddlewares(p) = 0 THEN "return" ELSE "on_finish"

RunFrameValidatesFirst(p, l, validate) ==
    [fn |-> "run", pipe |-> p, loader |-> l, validate |-> validate, at |-> "validate", i |-> 0, step |-> 0, chain |-> <<>>, data |-> EmptyDict]

RunFrame(p, l, validate) ==
    [fn |-> "run", pipe |-> p, loader |-> l, validate |-> validate, at |-> AfterHooks(p, "on_start"), i |-> 0, step |-> 0, chain |-> <<>>, data |-> EmptyDict]

StepFrame(p, chain) ==
    [fn |-> "step", pipe |-> p, loader |-> 0, validate |-> FALSE, at |-> "before", i |-> 0, step |-> 0, chain |-> chain, data |-> EmptyDict]

InRun(at) == pc = "running" /\ stack # <<>> /\ Top.fn = "run" /\ Top.at = at

InStep(at) == pc = "running" /\ stack # <<>> /\ Top.fn = "step" /\ Top.at = at

\* pipeline.run(state, data_loader, validate); rargs keeps what the caller
\* passed: the flag and the state dict as it was at the call.
StartRun(validate) ==
    /\ pc = "ready"
    /\ pc' = "running"
    /\ rargs' = [validate |-> validate, state |-> state]
    /\ stack' = <<RunFrame(Outer, Outer, validate)>>
    /\ UNCHANGED <<heap, pipes, loaders, vargs, vres, state, trace, exc>>

\* d[key] = 1 for every key of `keys`.
WriteKeys(d, keys) == [k \in DOMAIN d \cup keys |-> IF k \in keys THEN 1 ELSE d[k]]

OnStartForwardsToWrapped ==
    /\ InRun("on_start")
    /\ LET mw == pipes[Top.pipe].middlewares[Top.i + 1]
           st == WriteKeys(state, mw.on_start)
           wrapped == IF IsWrapper(mw)
                      THEN [j \in 1..NumMiddlewares(mw.pipeline) |-> Event("on_start", mw.pipeline, j - 1, st)]
                      ELSE <<>>
       IN /\ state' = st
          /\ trace' = Append(trace, Event("on_start", Top.pipe, Top.i, st)) \o wrapped
    /\ stack' = Append(Below, IF Top.i + 1 < NumMiddlewares(Top.pipe)
                              THEN [Top EXCEPT !.i = @ + 1]
                              ELSE [Top EXCEPT !.i = 0, !.at = "sized"])
    /\ UNCHANGED <<heap, pipes, loaders, pc, vargs, vres, rargs, exc>>

\* for mware in self.middlewares: mware.on_start(state)   (one call, which
\* writes the keys the hook of the middleware's class writes)
OnStart ==
    /\ InRun("on_start")
    /\ LET st == WriteKeys(state, pipes[Top.pipe].middlewares[Top.i + 1].on_start)
       IN /\ state' = st
          /\ trace' = Append(trace, Event("on_start", Top.pipe, Top.i, st))
    /\ stack' = Append(Below, IF Top.i + 1 < NumMiddlewares(Top.pipe)
                              THEN [Top EXCEPT !.i = @ + 1]
                              ELSE [Top EXCEPT !.i = 0, !.at = "sized"])
    /\ UNCHANGED <<heap, pipes, loaders, pc, vargs, vres, rargs, exc>>

WriteLengthIfAbsent ==
    /\ InRun("sized")
    /\ LET st == IF IsSized(Top.loader) /\ NumKey(pipes[Top.pipe].step_name) \notin DOMAIN state
                 THEN DictSet(state, NumKey(pipes[Top.pipe].step_name), loaders[Top.loader].num_steps)
                 ELSE state
       IN /\ state' = st
          /\ trace' = Append(trace, Event("sized", Top.pipe, -1, st))
    /\ stack' = Append(Below, [Top EXCEPT !.at = "validate"])
    /\ UNCHANGED <<heap, pipes, loaders, pc, vargs, vres, rargs, exc>>

WriteLengthUnsizedToo ==
    /\ InRun("sized")
    /\ LET st == DictSet(state, NumKey(pipes[Top.pipe].step_name), loaders[Top.loader].num_steps)
       IN /\ state' = st
          /\ trace' = Append(trace, Event("sized", Top.pipe, -1, st))
    /\ stack' = Append(Below, [Top EXCEPT !.at = "validate"])
    /\ UNCHANGED <<heap, pipes, loaders, pc, vargs, vres, rargs, exc>>

\* if isinstance(data_loader, Sized): state[f"num_{self.step_name}s"] = len(data_loader)
WriteLength ==
    /\ InRun("sized")
    /\ LET st == IF IsSized(Top.loader)
                 THEN DictSet(state, NumKey(pipes[Top.pipe].step_name), loaders[Top.loader].num_steps)
                 ELSE state
       IN /\ state' = st
          /\ trace' = Append(trace, Event("sized", Top.pipe, -1, st))
    /\ stack' = Append(Below, [Top EXCEPT !.at = "validate"])
    /\ UNCHANGED <<heap, pipes, loaders, pc, vargs, vres, rargs, exc>>

RunValidateGoesOn ==
    /\ InRun("validate")
    /\ IF Top.validate
       THEN LET keys == NewSet(heap)
                h == SetUpdate(keys.heap, keys.ref, DOMAIN state)
                r == ValidateCall(h, Top.pipe, keys.ref, loaders[Top.loader].data_fields, IsSized(Top.loader))
            IN /\ heap' = SubSeq(r.heap, 1, Len(heap))
               /\ vargs' = [sized |-> IsSized(Top.loader), heap |-> heap]
               /\ vres' = [r EXCEPT !.heap = SubSeq(r.heap, 1, Len(heap))]
               /\ stack' = Append(Below, [Top EXCEPT !.at = "loop"])
               /\ trace' = Append(trace, Event(IF r.err.raised THEN "validation_failed" ELSE "validated", Top.pipe, -1, state))
               /\ UNCHANGED <<pc, exc>>
       ELSE /\ stack' = Append(Below, [Top EXCEPT !.at = "loop"])
            /\ UNCHANGED <<heap, vargs, vres, pc, exc, trace>>
    /\ UNCHANGED <<pipes, loaders, state, rargs>>

RunValidateOnCallerKeys ==
    /\ InRun("validate")
    /\ IF Top.validate
       THEN LET keys == NewSet(heap)
                h == SetUpdate(keys.heap, keys.ref, DOMAIN rargs.state)
                r == ValidateCall(h, Top.pipe, keys.ref, loaders[Top.loader].data_fields, IsSized(Top.loader))
            IN /\ heap' = SubSeq(r.heap, 1, Len(heap))
               /\ vargs' = [sized |-> IsSized(Top.loader), heap |-> heap]
               /\ vres' = [r EXCEPT !.heap = SubSeq(r.heap, 1, Len(heap))]
               /\ IF r.err.raised
                  THEN /\ stack' = <<>>
                       /\ pc' = "raised"
                       /\ exc' = "ValidationError"
                       /\ trace' = Append(trace, Event("validation_failed", Top.pipe, -1, state))
                  ELSE /\ stack' = Append(Below, [Top EXCEPT !.at = "loop"])
                       /\ trace' = Append(trace, Event("validated", Top.pipe, -1, state))
                       /\ UNCHANGED <<pc, exc>>
       ELSE /\ stack' = Append(Below, [Top EXCEPT !.at = "loop"])
            /\ UNCHANGED <<heap, vargs, vres, pc, exc, trace>>
    /\ UNCHANGED <<pipes, loaders, state, rargs>>

RunValidateIgnoresFlag ==
    /\ InRun("validate")
    /\ LET keys == NewSet(heap)
           h == SetUpdate(keys.heap, keys.ref, DOMAIN state)
           r == ValidateCall(h, Top.pipe, keys.ref, loaders[Top.loader].data_fields, IsSized(Top.loader))
       IN /\ heap' = SubSeq(r.heap, 1, Len(heap))
          /\ vargs' = [sized |-> IsSized(Top.loader), heap |-> heap]
          /\ vres' = [r EXCEPT !.heap = SubSeq(r.heap, 1, Len(heap))]
          /\ IF r.err.raised
             THEN /\ stack' = <<>>
                  /\ pc' = "raised"
                  /\ exc' = "ValidationError"
                  /\ trace' = Append(trace, Event("validation_failed", Top.pipe, -1, state))
             ELSE /\ stack' = Append(Below, [Top EXCEPT !.at = "loop"])
                  /\ trace' = Append(trace, Event("validated", Top.pipe, -1, state))
                  /\ UNCHANGED <<pc, exc>>
    /\ UNCHANGED <<pipes, loaders, state, rargs>>

\* if validate: self.validate(set(state.keys()), data_loader.data_fields, isinstance(data_loader, Sized))
\* A ValidationError leaves run, and every call around it.
RunValidate ==
    /\ InRun("validate")
    /\ IF Top.validate
       THEN LET keys == NewSet(heap)
                h == SetUpdate(keys.heap, keys.ref, DOMAIN state)
                r == ValidateCall(h, Top.pipe, keys.ref, loaders[Top.loader].data_fields, IsSized(Top.loader))
            IN /\ heap' = SubSeq(r.heap, 1, Len(heap))
               /\ vargs' = [sized |-> IsSized(Top.loader), heap |-> heap]
               /\ vres' = [r EXCEPT !.heap = SubSeq(r.heap, 1, Len(heap))]
               /\ IF r.err.raised
                  THEN /\ stack' = <<>>
                       /\ pc' = "raised"
                       /\ exc' = "ValidationError"
                       /\ trace' = Append(trace, Event("validation_failed", Top.pipe, -1, state))
                  ELSE /\ stack' = Append(Below, [Top EXCEPT !.at = "loop"])
                       /\ trace' = Append(trace, Event("validated", Top.pipe, -1, state))
                       /\ UNCHANGED <<pc, exc>>
       ELSE /\ stack' = Append(Below, [Top EXCEPT !.at = "loop"])
            /\ UNCHANGED <<heap, vargs, vres, pc, exc, trace>>
    /\ UNCHANGED <<pipes, loaders, state, rargs>>

NextRecordWritesOuterKey ==
    /\ InRun("loop")
    /\ Top.step < loaders[Top.loader].num_steps
    /\ Yields(loaders[Top.loader], Top.step).ok
    /\ LET st == DictSet(state, pipes[Outer].step_name, Top.step)
       IN /\ state' = st
          /\ trace' = Append(trace, Event("record", Top.pipe, -1, st))
    /\ stack' = Below \o <<[Top EXCEPT !.step = @ + 1, !.data = Yields(loaders[Top.loader], Top.step).data], StepFrame(Top.pipe, pipes[Top.pipe].run)>>
    /\ UNCHANGED <<heap, pipes, loaders, pc, vargs, vres, rargs, exc>>

NextRecordSetsDefault ==
    /\ InRun("loop")
    /\ Top.step < loaders[Top.loader].num_steps
    /\ Yields(loaders[Top.loader], Top.step).ok
    /\ LET st == IF pipes[Top.pipe].step_name \in DOMAIN state THEN state ELSE DictSet(state, pipes[Top.pipe].step_name, Top.step)
       IN /\ state' = st
          /\ trace' = Append(trace, Event("record", Top.pipe, -1, st))
    /\ stack' = Below \o <<[Top EXCEPT !.step = @ + 1, !.data = Yields(loaders[Top.loader], Top.step).data], StepFrame(Top.pipe, pipes[Top.pipe].run)>>
    /\ UNCHANGED <<heap, pipes, loaders, pc, vargs, vres, rargs, exc>>

NextRecordCountsFromOne ==
    /\ InRun("loop")
    /\ Top.step < loaders[Top.loader].num_steps
    /\ Yields(loaders[Top.loader], Top.step).ok
    /\ LET st == DictSet(state, pipes[Top.pipe].step_name, Top.step + 1)
       IN /\ state' = st
          /\ trace' = Append(trace, Event("record", Top.pipe, -1, st))
    /\ stack' = Below \o <<[Top EXCEPT !.step = @ + 1, !.data = Yields(loaders[Top.loader], Top.step).data], StepFrame(Top.pipe, pipes[Top.pipe].run)>>
    /\ UNCHANGED <<heap, pipes, loaders, pc, vargs, vres, rargs, exc>>

\* for step, data in enumerate(data_loader): state[self.step_name] = step; self._run(state=state, data=data)
NextRecord ==
    /\ InRun("loop")
    /\ Top.step < loaders[Top.loader].num_steps
    /\ Yields(loaders[Top.loader], Top.step).ok
    /\ LET st == DictSet(state, pipes[Top.pipe].step_name, Top.step)
       IN /\ state' = st
          /\ trace' = Append(trace, Event("record", Top.pipe, -1, st))
    /\ stack' = Below \o <<[Top EXCEPT !.step = @ + 1, !.data = Yields(loaders[Top.loader], Top.step).data], StepFrame(Top.pipe, pipes[Top.pipe].run)>>
    /\ UNCHANGED <<heap, pipes, loaders, pc, vargs, vres, rargs, exc>>

\* dict(zip(self.data_fields_seq, batch, strict=True)) raises ValueError in
\* the loader's __iter__, which the for statement of run calls outside its
\* try: the exception leaves run and every call around it.
LoaderFails ==
    /\ InRun("loop")
    /\ Top.step < loaders[Top.loader].num_steps
    /\ ~Yields(loaders[Top.loader], Top.step).ok
    /\ trace' = Append(trace, Event("loader_failed", Top.pipe, -1, state))
    /\ stack' = <<>>
    /\ pc' = "raised"
    /\ exc' = "ValueError"
    /\ UNCHANGED <<heap, pipes, loaders, vargs, vres, state, rargs>>

\* The loader has no more records: the loop ends.
LoaderExhausted ==
    /\ InRun("loop")
    /\ Top.step >= loaders[Top.loader].num_steps
    /\ stack' = Append(Below, [Top EXCEPT !.at = AfterHooks(Top.pipe, "on_finish"), !.i = 0])
    /\ UNCHANGED <<heap, pipes, loaders, pc, vargs, vres, state, trace, rargs, exc>>

CatchAbortLikeSkip(frame, signal) == frame

CatchSkipLikeAbort(frame, signal) == [frame EXCEPT !.at = AfterHooks(frame.pipe, "on_finish"), !.i = 0]

CatchAbortSkipsFinish(frame, signal) ==
    IF signal = "abort"
    THEN [frame EXCEPT !.at = "return", !.i = 0]
    ELSE frame

\* Pipeline.run's handlers, in the frame of the run whose loop called the
\* chain: except AbortPipeline: break / except SkipStep: continue.
Catch(frame, signal) ==
    IF signal = "abort"
    THEN [frame EXCEPT !.at = AfterHooks(frame.pipe, "on_finish"), !.i = 0]
    ELSE frame

OutermostRun(stk) == CHOOSE r \in 1..Len(stk) : stk[r].fn = "run" /\ \A q \in 1..(r - 1) : stk[q].fn # "run"

\* The index in stk of the innermost frame of Pipeline.run.
InnermostRun(stk) == CHOOSE r \in 1..Len(stk) : stk[r].fn = "run" /\ \A q \in (r + 1)..Len(stk) : stk[q].fn # "run"

\* The exceptions Pipeline.run has a handler for.
Handled == {"skip", "abort"}

RaiseAllHandled(stk, signal) ==
    LET r == InnermostRun(stk)
    IN Append(SubSeq(stk, 1, r - 1), Catch(stk[r], IF signal \in Handled THEN signal ELSE "abort"))

\* raise SkipStep / raise AbortPipeline from the innermost frame: the frames
\* up to the nearest run are left, and that run handles the signal.  Any
\* other exception passes every run and leaves every frame.
Raise(stk, signal) ==
    IF signal \in Handled
    THEN LET r == InnermostRun(stk)
         IN Append(SubSeq(stk, 1, r - 1), Catch(stk[r], signal))
    ELSE <<>>

\* The caller of the outermost run sees the exception that left every frame.
Uncaught(stk, name) ==
    /\ pc' = IF stk = <<>> THEN "raised" ELSE pc
    /\ exc' = IF stk = <<>> THEN name ELSE exc

\* data[field] = 1 for every field of `fields`: a middleware's code writes
\* the fields it declares to provide into the record of the run in progress
\* (as the example of the Middleware docstring does with data["value"]).
Provide(stk, fields) ==
    LET r == InnermostRun(stk)
    IN [stk EXCEPT ![r].data = WriteKeys(stk[r].data, fields)]

Raises(body, when, st, p) == body.signal # "none" /\ body.when = when /\ StepOf(st, p) = body.at

\* The wrapped function of a middleware, up to its call of next_step.
Before ==
    /\ InStep("before")
    /\ Top.chain # EmptySink
    /\ LET mw == pipes[Top.pipe].middlewares[Head(Top.chain)]
           before == Event("before", Top.pipe, Head(Top.chain) - 1, state)
       IN /\ ~IsWrapper(mw)
          /\ IF Raises(mw.wrap, "before", state, Top.pipe)
             THEN /\ trace' = trace \o <<before, Event(mw.wrap.signal, Top.pipe, Head(Top.chain) - 1, state)>>
                  /\ stack' = Raise(stack, mw.wrap.signal)
                  /\ Uncaught(Raise(stack, mw.wrap.signal), "Error")
             ELSE /\ trace' = Append(trace, before)
                  /\ stack' = Provide(IF mw.wrap.calls_next
                                      THEN Below \o <<[Top EXCEPT !.at = "after"], StepFrame(Top.pipe, Tail(Top.chain))>>
                                      ELSE Append(Below, [Top EXCEPT !.at = "after"]),
                                      heap[mw.provides_data_fields_pre])
                  /\ UNCHANGED <<pc, exc>>
    /\ UNCHANGED <<heap, pipes, loaders, vargs, vres, state, rargs>>

\* The wrapped function of a middleware, from the return of next_step on.
After ==
    /\ InStep("after")
    /\ LET mw == pipes[Top.pipe].middlewares[Head(Top.chain)]
           after == Event("after", Top.pipe, Head(Top.chain) - 1, state)
       IN IF Raises(mw.wrap, "after", state, Top.pipe)
          THEN /\ trace' = trace \o <<after, Event(mw.wrap.signal, Top.pipe, Head(Top.chain) - 1, state)>>
               /\ stack' = Raise(stack, mw.wrap.signal)
               /\ Uncaught(Raise(stack, mw.wrap.signal), "Error")
          ELSE /\ trace' = Append(trace, after)
               /\ stack' = Provide(Below, heap[mw.provides_data_fields_post])
               /\ UNCHANGED <<pc, exc>>
    /\ UNCHANGED <<heap, pipes, loaders, vargs, vres, state, rargs>>

WrapperRunSkipsPipeline ==
    /\ InStep("before")
    /\ Top.chain # EmptySink
    /\ IsWrapper(pipes[Top.pipe].middlewares[Head(Top.chain)])
    /\ trace' = Append(trace, Event("before", Top.pipe, Head(Top.chain) - 1, state))
    /\ stack' = Append(Below, [Top EXCEPT !.at = "pipeline_run"])
    /\ UNCHANGED <<heap, pipes, loaders, pc, vargs, vres, state, rargs, exc>>

\* The wrapped function of a PipelineWrapper, its first statement:
\* self.pipeline.run(state, self.data_loader, validate=False)
WrapperRun ==
    /\ InStep("before")
    /\ Top.chain # EmptySink
    /\ LET mw == pipes[Top.pipe].middlewares[Head(Top.chain)]
       IN /\ IsWrapper(mw)
          /\ trace' = Append(trace, Event("before", Top.pipe, Head(Top.chain) - 1, state))
          /\ stack' = Below \o <<[Top EXCEPT !.at = "pipeline_run"], RunFrame(mw.pipeline, mw.data_loader, FALSE)>>
    /\ UNCHANGED <<heap, pipes, loaders, pc, vargs, vres, state, rargs, exc>>

\* The wrapped function of a PipelineWrapper, once the run of its pipeline
\* has returned: next_step(state, data)
WrapperNext ==
    /\ InStep("pipeline_run")
    /\ trace' = Append(trace, Event("next_step", Top.pipe, Head(Top.chain) - 1, state))
    /\ stack' = Below \o <<[Top EXCEPT !.at = "after"], StepFrame(Top.pipe, Tail(Top.chain))>>
    /\ UNCHANGED <<heap, pipes, loaders, pc, vargs, vres, state, rargs, exc>>

\* _empty_sink
EmptySinkStep ==
    /\ InStep("before")
    /\ Top.chain = EmptySink
    /\ trace' = Append(trace, Event("sink", Top.pipe, -1, state))
    /\ stack' = Below
    /\ UNCHANGED <<heap, pipes, loaders, pc, vargs, vres, state, rargs, exc>>

\* for mware in self.middlewares: mware.on_finish(state)   (one call)
OnFinish ==
    /\ InRun("on_finish")
    /\ trace' = Append(trace, Event("on_finish", Top.pipe, Top.i, state))
    /\ stack' = Append(Below, IF Top.i + 1 < NumMiddlewares(Top.pipe)
                              THEN [Top EXCEPT !.i = @ + 1]
                              ELSE [Top EXCEPT !.i = 0, !.at = "return"])
    /\ UNCHANGED <<heap, pipes, loaders, pc, vargs, vres, state, rargs, exc>>

\* run returns to its caller.
RunReturns ==
    /\ InRun("return")
    /\ trace' = Append(trace, Event("return", Top.pipe, -1, state))
    /\ stack' = Below
    /\ pc' = IF Below = <<>> THEN "returned" ELSE pc
    /\ UNCHANGED <<heap, pipes, loaders, vargs, vres, state, rargs, exc>>

vars == <<heap, pipes, loaders, pc, vargs, vres, state, stack, trace, rargs, exc>>

\* ------------------------------------------------------------------------
\* Validation of a sequence of plain middlewares
\* ------------------------------------------------------------------------

PlainStateNames == {"x", DefaultStepName, NumKey(DefaultStepName)}

InitV == InitObjects(NewLoader(TRUE, 0, Outer), NewLoader(TRUE, 0, Inner))

NextV ==
    \/ \E type \in PlainTypes : AddMiddleware(Outer, type)
    \/ \E i \in 1..MaxMw, name \in PlainStateNames : Declare(Outer, i, "requires_state_fields", name)
    \/ \E i \in 1..MaxMw, field \in {"requires_data_fields_pre", "requires_data_fields_post"}, name \in DataNames : Declare(Outer, i, field, name)
    \/ \E i \in 1..MaxMw, field \in {"provides_data_fields_pre", "provides_data_fields_post"} : Declare(Outer, i, field, "a")
    \/ \E name \in {"x", NumKey(DefaultStepName)} : DeclareOwned(ArgStateRef, name)
    \/ \E name \in DataNames : DeclareOwned(ArgDataRef, name)
    \/ Construct(DefaultStepName)
    \/ \E sized \in BOOLEAN : Validate(sized)

SpecV == InitV /\ [][NextV]_vars

\* The contract sets of the outer middleware at index i (from 0) and the
\* arguments, as they were when validate was called.
OuterLen == Len(pipes[Outer].middlewares)

OuterStepKey == pipes[Outer].step_name

ContractAt(i, field) == vargs.heap[pipes[Outer].middlewares[i + 1][field]]

\* The reference simulation, in closed form.  The state fields available to
\* every check; the data fields accumulated before the forward check of
\* middleware i; and those accumulated before its backward check.
RefState == vargs.heap[ArgStateRef] \cup {pipes[Outer].step_name} \cup (IF vargs.sized THEN {NumKey(pipes[Outer].step_name)} ELSE {})

RefDataPre(i) == vargs.heap[ArgDataRef] \cup UNION {ContractAt(j, "provides_data_fields_pre") : j \in 0..(i - 1)}

RefDataPost(i) == RefDataPre(OuterLen) \cup UNION {ContractAt(j, "provides_data_fields_post") : j \in (i + 1)..(OuterLen - 1)}

RefForwardOk(i) ==
    /\ ContractAt(i, "requires_state_fields") \subseteq RefState
    /\ ContractAt(i, "requires_data_fields_pre") \subseteq RefDataPre(i)

RefBackwardOk(i) == ContractAt(i, "requires_data_fields_post") \subseteq RefDataPost(i)

RefSucceeds ==
    /\ \A i \in 0..(OuterLen - 1) : RefForwardOk(i)
    /\ \A i \in 0..(OuterLen - 1) : RefBackwardOk(i)

\* C1: for a sequence of middlewares without PipelineWrapper and every input,
\* Pipeline.validate succeeds if and only if the reference simulation does:
\* forward in the given order (state and pre requirements against the
\* accumulated sets, then the pre provisions added), then backward in reverse
\* order (post requirements, then the post provisions added).
C1_ValidateIffReference ==
    (pc = "validated" /\ ~HasWrapper) => (~vres.err.raised <=> RefSucceeds)

\* A validation of two middlewares that succeeds only because the first one's
\* post requirement is provided by the second one on the way back.
C1_Witness ==
    /\ pc = "validated"
    /\ OuterLen = 2
    /\ ~vres.err.raised
    /\ ContractAt(0, "requires_data_fields_post") # {}
    /\ ~(ContractAt(0, "requires_data_fields_post") \subseteq RefDataPre(OuterLen))

\* The lowest index whose forward check fails in the reference simulation
\* (OuterLen when none does).
RefFirstForwardFailure ==
    IF \A i \in 0..(OuterLen - 1) : RefForwardOk(i)
    THEN OuterLen
    ELSE CHOOSE i \in 0..(OuterLen - 1) : ~RefForwardOk(i) /\ \A j \in 0..(i - 1) : RefForwardOk(j)

\* C9: validate is fail-fast.  When some middleware fails a forward check, the
\* error names the type and the index of the lowest-index failing middleware,
\* the middlewares checked are exactly those up to it, each once and in the
\* forward pass, and no backward check is made.
C9_FailFast ==
    (pc = "validated" /\ ~HasWrapper /\ RefFirstForwardFailure < OuterLen) =>
        LET f == RefFirstForwardFailure
        IN /\ vres.err.raised
           /\ vres.err.frames = <<[type |-> pipes[Outer].middlewares[f + 1].type, index |-> f]>>
           /\ Len(vres.log) = f + 1
           /\ \A k \in 1..Len(vres.log) : vres.log[k].pre /\ vres.log[k].index = k - 1 /\ vres.log[k].pipe = Outer

\* The second of two middlewares fails its forward check while the first one
\* has a post requirement that nothing provides: the forward failure is the
\* one reported.
C9_Witness ==
    /\ pc = "validated"
    /\ OuterLen = 2
    /\ RefFirstForwardFailure = 1
    /\ ~RefBackwardOk(0)
    /\ vres.err.raised
    /\ vres.err.frames[1].index = 1

\* C17: validate treats step_name as an available state field always, and
\* num_<step_name>s when sized_data_loader is true: every middleware is
\* checked against the caller's state fields plus those keys, and no error
\* reports them missing.  When sized_data_loader is false, a middleware that
\* requires num_<step_name>s makes validation fail unless the caller's
\* state_fields holds that key.
C17_StepKeysAvailable ==
    (pc = "validated" /\ ~HasWrapper) =>
        /\ \A k \in 1..Len(vres.log) :
              vres.log[k].state = vargs.heap[ArgStateRef] \cup {OuterStepKey} \cup (IF vargs.sized THEN {NumKey(OuterStepKey)} ELSE {})
        /\ (vres.err.raised /\ vres.err.kind = "state") =>
              /\ OuterStepKey \notin vres.err.missing
              /\ vargs.sized => NumKey(OuterStepKey) \notin vres.err.missing
        /\ (~vargs.sized /\ \E i \in 0..(OuterLen - 1) : NumKey(OuterStepKey) \in ContractAt(i, "requires_state_fields")) =>
              (vres.err.raised <=> (NumKey(OuterStepKey) \notin vargs.heap[ArgStateRef] \/ ~RefSucceeds))

\* Not sized: the one middleware requires the step key and the count key, the
\* caller's state fields are empty, and only the count key is reported missing.
C17_Witness ==
    /\ pc = "validated"
    /\ ~vargs.sized
    /\ OuterLen = 1
    /\ ContractAt(0, "requires_state_fields") = {OuterStepKey, NumKey(OuterStepKey)}
    /\ vargs.heap[ArgStateRef] = {}
    /\ vres.err.raised
    /\ vres.err.kind = "state"
    /\ vres.err.missing = {NumKey(OuterStepKey)}

\* The highest index whose backward check fails in the reference simulation.
RefLastBackwardFailure ==
    CHOOSE i \in 0..(OuterLen - 1) : ~RefBackwardOk(i) /\ \A j \in (i + 1)..(OuterLen - 1) : RefBackwardOk(j)

\* C18: when the forward pass succeeds and some middleware fails its backward
\* check, the error names the middleware's index in the given sequence, not
\* its place in the reversed iteration, and the middleware named is the one
\* of highest index whose post requirement is unmet when it is checked: those
\* after it were checked before it, in descending order, and passed.
C18_BackwardReportsOriginalIndex ==
    (pc = "validated" /\ ~HasWrapper /\ RefFirstForwardFailure = OuterLen /\ \E i \in 0..(OuterLen - 1) : ~RefBackwardOk(i)) =>
        LET f == RefLastBackwardFailure
        IN /\ vres.err.raised
           /\ vres.err.frames = <<[type |-> pipes[Outer].middlewares[f + 1].type, index |-> f]>>
           /\ vres.err.kind = "data post"
           /\ vres.err.missing = ContractAt(f, "requires_data_fields_post") \ RefDataPost(f)
           /\ Len(vres.log) = OuterLen + (OuterLen - f)
           /\ \A k \in (OuterLen + 1)..Len(vres.log) : ~vres.log[k].pre /\ vres.log[k].index = 2 * OuterLen - k

\* Two middlewares of different classes pass forward; the second passes its
\* backward check and the first one fails its own: index 0 is reported, at
\* place 1 of the reversed iteration.
C18_Witness ==
    /\ pc = "validated"
    /\ OuterLen = 2
    /\ pipes[Outer].middlewares[1].type # pipes[Outer].middlewares[2].type
    /\ vres.err.raised
    /\ vres.err.kind = "data post"
    /\ vres.err.frames = <<[type |-> pipes[Outer].middlewares[1].type, index |-> 0]>>
    /\ Len(vres.log) = 4

\* The outcome of the variant of validate that checks requires_state_fields
\* in the forward pass only: no frame on success, else the type name and the
\* index of the middleware reported.
VariantOutcome ==
    IF RefFirstForwardFailure < OuterLen
    THEN <<[type |-> pipes[Outer].middlewares[RefFirstForwardFailure + 1].type, index |-> RefFirstForwardFailure]>>
    ELSE IF \E i \in 0..(OuterLen - 1) : ~RefBackwardOk(i)
         THEN <<[type |-> pipes[Outer].middlewares[RefLastBackwardFailure + 1].type, index |-> RefLastBackwardFailure]>>
         ELSE <<>>

\* C27: the state-field check made in the backward pass can never be the one
\* that fails: every backward call finds the middleware's required state
\* fields in the set it is given, an error about state fields comes from a
\* forward call, and the outcome of validate (success, or failure with the
\* same type name and index) is that of the variant that checks the state
\* fields in the forward pass only.
C27_BackwardStateCheckNeverFails ==
    (pc = "validated" /\ ~HasWrapper) =>
        /\ vres.err.raised <=> VariantOutcome # <<>>
        /\ vres.err.frames = VariantOutcome
        /\ \A k \in 1..Len(vres.log) :
              ~vres.log[k].pre => ContractAt(vres.log[k].index, "requires_state_fields") \subseteq vres.log[k].state
        /\ (vres.err.raised /\ vres.err.kind = "state") => vres.log[Len(vres.log)].pre

\* Two middlewares that each require a state field pass forward; the second
\* passes its backward call, state check included, and the first fails its
\* backward call on a data field.
C27_Witness ==
    /\ pc = "validated"
    /\ OuterLen = 2
    /\ ContractAt(0, "requires_state_fields") # {}
    /\ ContractAt(1, "requires_state_fields") # {}
    /\ vres.err.raised
    /\ vres.err.kind = "data post"
    /\ vres.err.frames[1].index = 0
    /\ Len(vres.log) = 4
    /\ vres.log[3].state_checked
    /\ vres.log[4].state_checked

\* C29: validate is monotone in its inputs: when it succeeds for (S, D, sized)
\* it succeeds for every (S', D', sized') with S a subset of S', D a subset of
\* D', and sized' true or equal to sized.
C29_ValidateMonotone ==
    (pc = "validated" /\ ~vres.err.raised) =>
        \A sf \in SUBSET PlainStateNames, df \in SUBSET DataNames, sized \in BOOLEAN :
            (vargs.heap[ArgStateRef] \subseteq sf /\ vargs.heap[ArgDataRef] \subseteq df /\ (sized \/ sized = vargs.sized)) =>
                ~ValidateCall([vargs.heap EXCEPT ![ArgStateRef] = sf, ![ArgDataRef] = df], Outer, ArgStateRef, ArgDataRef, sized).err.raised

\* A validation without length has succeeded for two middlewares, one with a
\* state requirement and one with a data requirement that the caller's sets
\* meet; both sets have proper supersets.
C29_Witness ==
    /\ pc = "validated"
    /\ ~vres.err.raised
    /\ ~vargs.sized
    /\ OuterLen = 2
    /\ ContractAt(0, "requires_state_fields") # {}
    /\ ContractAt(1, "requires_data_fields_pre") = {"a"}
    /\ vargs.heap[ArgDataRef] = {"a"}
    /\ vargs.heap[ArgStateRef] # PlainStateNames

\* ------------------------------------------------------------------------
\* Validation of a pipeline that embeds another through a PipelineWrapper
\* ------------------------------------------------------------------------

OuterStepName == "epoch"

InitW == \E innerSized \in BOOLEAN : InitObjects(NewLoader(TRUE, 0, Outer), NewLoader(innerSized, 0, Inner))

NextW ==
    \/ AddMiddleware(Outer, SimpleType)
    \/ AddWrapper
    \/ \E type \in PlainTypes : AddMiddleware(Inner, type)
    \/ \E i \in 1..MaxMw, name \in {DefaultStepName, NumKey(DefaultStepName)} : Declare(Outer, i, "requires_state_fields", name)
    \/ \E i \in 1..MaxInner, name \in {"x", NumKey(OuterStepName)} : Declare(Inner, i, "requires_state_fields", name)
    \/ \E i \in 1..MaxInner, field \in {"requires_data_fields_pre", "provides_data_fields_pre", "requires_data_fields_post"} : Declare(Inner, i, field, "a")
    \/ DeclareOwned(ArgStateRef, "x")
    \/ DeclareOwned(LoaderRef(Inner), "a")
    \/ Construct(OuterStepName)
    \/ \E sized \in BOOLEAN : Validate(sized)

SpecW == InitW /\ [][NextW]_vars

\* C8: validate never mutates a set that existed when it was called (the
\* caller's state_fields and data_fields, every middleware's contract sets,
\* the loaders' data_fields), whether it succeeds or fails, and a second call
\* with the same arguments has the outcome of the first.
C8_ValidateMutatesNothing ==
    pc = "validated" =>
        /\ heap = vargs.heap
        /\ LET again == ValidateCall(heap, Outer, ArgStateRef, ArgDataRef, vargs.sized)
           IN again.err = vres.err /\ again.log = vres.log

\* A validation that went into the embedded pipeline, whose own copies took
\* the step keys and a provided data field, and that failed afterwards.
C8_Witness ==
    /\ pc = "validated"
    /\ vres.err.raised
    /\ \E k \in 1..Len(vres.log) :
          /\ vres.log[k].pipe = Inner
          /\ \E j \in 1..Len(pipes[Inner].middlewares) : vargs.heap[pipes[Inner].middlewares[j].provides_data_fields_pre] # {}
    /\ vres.log[Len(vres.log)].pipe = Outer

\* C10 (as claimed): once the PipelineWrapper at index i has passed its forward
\* check, every outer middleware at an index above i is checked against a
\* state-fields set that holds the inner pipeline's step key, and its
\* num_<step_name>s key when the inner loader is sized.
C10_InnerKeysReachOuterSet ==
    pc = "validated" =>
        \A k \in 1..Len(vres.log) :
            (vres.log[k].pipe = Outer /\ vres.log[k].pre /\ \E i \in Wrappers : i - 1 < vres.log[k].index) =>
                /\ pipes[Inner].step_name \in vres.log[k].state
                /\ IsSized(Inner) => NumKey(pipes[Inner].step_name) \in vres.log[k].state

\* The middleware a logged _validate call was made on.
LoggedMw(e) == pipes[e.pipe].middlewares[e.index + 1]

\* What the middleware of a logged call requires and the sets it was checked
\* against lack: the state fields, else the data fields of the pass.
MissingState(e) == vargs.heap[LoggedMw(e).requires_state_fields] \ e.state

MissingData(e) ==
    IF e.pre
    THEN vargs.heap[LoggedMw(e).requires_data_fields_pre] \ e.data
    ELSE vargs.heap[LoggedMw(e).requires_data_fields_post] \ e.data

Unmet(e) == ~IsWrapper(LoggedMw(e)) /\ (MissingState(e) # {} \/ MissingData(e) # {})

\* The outer index of the last call made on an outer middleware before call k.
OuterCallBefore(k) ==
    LET c == CHOOSE c \in 1..k : vres.log[c].pipe = Outer /\ \A d \in (c + 1)..k : vres.log[d].pipe # Outer
    IN vres.log[c].index

\* C14: when a middleware of the pipeline embedded through the PipelineWrapper
\* at outer index i has an unmet requirement, outer validation stops there
\* with a ValidationError whose message names PipelineWrapper and i, whose
\* cause names the embedded middleware's type and its index in the embedded
\* pipeline, and whose cause in turn is the missing-fields error.
C14_NestedFailureRewrapped ==
    pc = "validated" =>
        \A k \in 1..Len(vres.log) :
            (vres.log[k].pipe = Inner /\ Unmet(vres.log[k])) =>
                /\ k = Len(vres.log)
                /\ vres.err.raised
                /\ vres.err.frames = <<[type |-> WrapperType, index |-> OuterCallBefore(k)],
                                       [type |-> LoggedMw(vres.log[k]).type, index |-> vres.log[k].index]>>
                /\ IsWrapper(pipes[Outer].middlewares[OuterCallBefore(k) + 1])
                /\ vres.err.kind = (IF MissingState(vres.log[k]) # {} THEN "state" ELSE IF vres.log[k].pre THEN "data pre" ELSE "data post")
                /\ vres.err.missing = (IF MissingState(vres.log[k]) # {} THEN MissingState(vres.log[k]) ELSE MissingData(vres.log[k]))

\* The wrapper is the second outer middleware, and the embedded pipeline's
\* middleware, of another class, requires a state field nobody declared.
C14_Witness ==
    /\ pc = "validated"
    /\ vres.err.raised
    /\ vres.err.frames = <<[type |-> WrapperType, index |-> 1], [type |-> "AccMiddleware", index |-> 0]>>
    /\ vres.err.kind = "state"
    /\ vres.err.missing = {"x"}

\* The logged calls that checked the state fields of the outer middleware i.
StateChecksOf(i) == {k \in 1..Len(vres.log) : vres.log[k].pipe = Outer /\ vres.log[k].index = i /\ vres.log[k].state_checked}

\* C20 (as claimed): the state fields are checked once per middleware, in the
\* forward pass only; no call of the backward pass checks them.
C20_StateCheckedForwardOnly ==
    (pc = "validated" /\ ~HasWrapper) =>
        /\ \A k \in 1..Len(vres.log) : vres.log[k].state_checked => vres.log[k].pre
        /\ \A i \in 0..(OuterLen - 1) : Cardinality(StateChecksOf(i)) <= 1

\* C20 (amended): every _validate call of a middleware checks the state
\* fields, in the forward pass and again in the backward pass (twice per
\* middleware when validation succeeds), both times against the same working
\* set; so the backward check never finds a state field missing, and every
\* missing-state-fields error is raised in the forward pass.
C20_StateCheckedInBothPasses ==
    (pc = "validated" /\ ~HasWrapper) =>
        /\ \A k \in 1..Len(vres.log) : vres.log[k].state_checked
        /\ ~vres.err.raised => \A i \in 0..(OuterLen - 1) : Cardinality(StateChecksOf(i)) = 2
        /\ \A k \in 1..Len(vres.log) : vres.log[k].state = vres.log[1].state
        /\ \A k \in 1..Len(vres.log) : ~vres.log[k].pre => MissingState(vres.log[k]) = {}
        /\ (vres.err.raised /\ vres.err.kind = "state") => vres.log[Len(vres.log)].pre

\* A validation of two middlewares succeeded; the second requires the step
\* key, which it was checked for in both passes.
C20_Witness ==
    /\ pc = "validated"
    /\ ~vres.err.raised
    /\ OuterLen = 2
    /\ ContractAt(1, "requires_state_fields") = {OuterStepKey}
    /\ Cardinality(StateChecksOf(1)) = 2
    /\ \E k \in StateChecksOf(1) : ~vres.log[k].pre

\* ------------------------------------------------------------------------
\* A call of Middleware._validate on its own
\* ------------------------------------------------------------------------

\* mw._validate(state_fields, data_fields, pre) on the caller's two sets, as
\* the tests of one middleware call it; the call is logged with the sets as
\* they are when it starts.
ValidateMiddleware(i, pre) ==
    /\ pc = "setup"
    /\ i \in 1..Len(pipes[Outer].middlewares)
    /\ LET env == Logged([heap |-> heap, log |-> <<>>, err |-> NoError], Outer, i - 1, pre, ArgStateRef, ArgDataRef)
           r == MiddlewareValidate(env, pipes[Outer].middlewares[i], ArgStateRef, ArgDataRef, pre)
       IN /\ heap' = r.heap
          /\ vres' = r
    /\ vargs' = [sized |-> FALSE, heap |-> heap]
    /\ pc' = "validated"
    /\ UNCHANGED <<pipes, loaders, state, stack, trace, rargs, exc>>

InitM == InitObjects(NewLoader(TRUE, 0, Outer), NewLoader(TRUE, 0, Inner))

NextM ==
    \/ AddMiddleware(Outer, SimpleType)
    \/ \E i \in 1..MaxMw, name \in {"x", DefaultStepName} : Declare(Outer, i, "requires_state_fields", name)
    \/ \E i \in 1..MaxMw, field \in {"requires_data_fields_pre", "requires_data_fields_post"}, name \in DataNames : Declare(Outer, i, field, name)
    \/ \E i \in 1..MaxMw, field \in {"provides_data_fields_pre", "provides_data_fields_post"}, name \in DataNames : Declare(Outer, i, field, name)
    \/ \E name \in {"x", DefaultStepName} : DeclareOwned(ArgStateRef, name)
    \/ \E name \in DataNames : DeclareOwned(ArgDataRef, name)
    \/ \E i \in 1..MaxMw, pre \in BOOLEAN : ValidateMiddleware(i, pre)

SpecM == InitM /\ [][NextM]_vars

\* The middleware's contract set `field` when _validate was called on it.
CalledContract(field) == vargs.heap[pipes[Outer].middlewares[vres.log[1].index + 1][field]]

\* C24: Middleware._validate raises the missing-state-fields error whenever
\* requires_state_fields is not a subset of state_fields, with pre=True and
\* with pre=False, and before it looks at the data fields; else it raises for
\* the required data fields of the pass that are missing; on success it adds
\* exactly provides_data_fields_pre (pre=True) or provides_data_fields_post
\* (pre=False) to the data_fields set it was given; state_fields is never
\* changed, and on a failure no set is.
C24_MiddlewareValidateContract ==
    pc = "validated" =>
        LET pre == vres.log[1].pre
            S == vargs.heap[ArgStateRef]
            D == vargs.heap[ArgDataRef]
            required == IF pre THEN CalledContract("requires_data_fields_pre") ELSE CalledContract("requires_data_fields_post")
            provided == IF pre THEN CalledContract("provides_data_fields_pre") ELSE CalledContract("provides_data_fields_post")
        IN /\ ~(CalledContract("requires_state_fields") \subseteq S) =>
                 /\ vres.err.raised
                 /\ vres.err.kind = "state"
                 /\ vres.err.missing = CalledContract("requires_state_fields") \ S
           /\ (CalledContract("requires_state_fields") \subseteq S /\ ~(required \subseteq D)) =>
                 /\ vres.err.raised
                 /\ vres.err.kind = (IF pre THEN "data pre" ELSE "data post")
                 /\ vres.err.missing = required \ D
           /\ (CalledContract("requires_state_fields") \subseteq S /\ required \subseteq D) =>
                 /\ ~vres.err.raised
                 /\ heap = [vargs.heap EXCEPT ![ArgDataRef] = D \cup provided]
           /\ vres.err.raised => heap = vargs.heap
           /\ heap[ArgStateRef] = S

\* Called with pre=False on a middleware whose required state field and
\* required post data field are both missing: the state fields are reported.
C24_Witness ==
    /\ pc = "validated"
    /\ ~vres.log[1].pre
    /\ CalledContract("requires_state_fields") = {"x"}
    /\ vargs.heap[ArgStateRef] = {}
    /\ CalledContract("requires_data_fields_post") = {"a"}
    /\ vargs.heap[ArgDataRef] = {}
    /\ vres.err.raised
    /\ vres.err.kind = "state"

\* ------------------------------------------------------------------------
\* A run of a pipeline of plain middlewares
\* ------------------------------------------------------------------------

\* Records in a loader.
MaxRecords == 3

\* The wrapped functions of the test middlewares: one that does not call
\* next_step, and those that raise a signal at one step index.
OwnWrapBodies ==
    {[SimpleWrap EXCEPT !.calls_next = FALSE]}
    \cup {[SimpleWrap EXCEPT !.signal = sig, !.at = k, !.when = w] : sig \in {"skip", "abort"}, k \in 0..(MaxRecords - 1), w \in {"before", "after"}}

InitR == \E sized \in BOOLEAN, n \in {0, MaxRecords} : InitObjects(NewLoader(sized, n, Outer), NewLoader(TRUE, 0, Inner))

NextR ==
    \/ AddMiddleware(Outer, SimpleType)
    \/ \E i \in 1..MaxMw : Declare(Outer, i, "requires_state_fields", "x")
    \/ \E i \in 1..MaxMw : Declare(Outer, i, "requires_data_fields_pre", "a")
    \/ \E i \in 1..MaxMw, body \in OwnWrapBodies : DefineWrap(Outer, i, body)
    \/ \E key \in {"x", DefaultStepName, NumKey(DefaultStepName)} : DeclareState(key)
    \/ Construct(DefaultStepName)
    \/ \E validate \in BOOLEAN : StartRun(validate)
    \/ OnStart
    \/ WriteLength
    \/ RunValidate
    \/ NextRecord
    \/ LoaderExhausted
    \/ Before
    \/ After
    \/ EmptySinkStep
    \/ OnFinish
    \/ RunReturns

SpecR == InitR /\ [][NextR]_vars

\* The outer run's loader length, and the trace positions of a kind.
OuterRecords == loaders[Outer].num_steps

Positions(kinds) == {m \in 1..Len(trace) : trace[m].ev \in kinds}

ChainKinds == {"before", "after", "sink"}

AllSimpleWraps == \A i \in 1..OuterLen : pipes[Outer].middlewares[i].wrap = SimpleWrap

\* What the middlewares' code did for the record of index k, in order.
ChainEvents(k) == SelectSeq(trace, LAMBDA e : e.ev \in {"before", "after"} /\ e.step = k)

\* m0-before .. m(n-1)-before, m(n-1)-after .. m0-after, for record k.
Onion(n, k) ==
    [j \in 1..(2 * n) |->
        IF j <= n
        THEN [ev |-> "before", pipe |-> Outer, i |-> j - 1, step |-> k]
        ELSE [ev |-> "after", pipe |-> Outer, i |-> 2 * n - j, step |-> k]]

\* C2: in a pipeline of n middlewares that each run code before and after
\* calling next_step, every record is processed m0-before, ..., m(n-1)-before,
\* m(n-1)-after, ..., m0-after.
C2_OnionOrder ==
    (pc = "returned" /\ AllSimpleWraps) =>
        \A k \in 0..(OuterRecords - 1) : ChainEvents(k) = Onion(OuterLen, k)

C2_Witness ==
    /\ pc = "returned"
    /\ AllSimpleWraps
    /\ OuterLen = MaxMw
    /\ OuterRecords = MaxRecords
    /\ ChainEvents(MaxRecords - 1) = Onion(MaxMw, MaxRecords - 1)

\* The outer middlewares (indexes from 0) whose wrapped function returns
\* without calling next_step.
ShortCircuits == {i \in 0..(OuterLen - 1) : ~pipes[Outer].middlewares[i + 1].wrap.calls_next}

NoSignal == Positions({"skip", "abort", "fail"}) = {}

\* C15: when middleware i returns without calling next_step, then for every
\* record the middlewares up to i run in order, no middleware after i and no
\* sink runs, the code after next_step of the middlewares before i runs in
\* reverse order, and the next record follows with the next step index.
C15_ShortCircuitOneRecord ==
    (pc = "returned" /\ NoSignal) =>
        \A i \in ShortCircuits :
            (\A j \in ShortCircuits : i <= j) =>
                /\ \A k \in 0..(OuterRecords - 1) : ChainEvents(k) = Onion(i + 1, k)
                /\ Positions({"sink"}) = {}
                /\ \A m \in Positions(ChainKinds) : trace[m].i <= i
                /\ Cardinality(Positions({"record"})) = OuterRecords
                /\ \A m \in Positions({"record"}) : Cardinality({r \in Positions({"record"}) : r < m}) = trace[m].step

\* The first of two middlewares does not call next_step, over three records:
\* the second middleware never ran.
C15_Witness ==
    /\ pc = "returned"
    /\ OuterLen = 2
    /\ OuterRecords = 3
    /\ ShortCircuits = {0}
    /\ ChainEvents(2) = Onion(1, 2)

\* The caller's state once run has written the loader's length into it.
WithLength(st) == IF IsSized(Outer) THEN DictSet(st, NumKey(OuterStepKey), OuterRecords) ELSE st

\* C16: for an empty middleware sequence, validate succeeds whatever the
\* state fields, the data fields and the sized flag; and run pulls every
\* record of the loader, gives each to the empty sink, and per record changes
\* nothing in state but the step key, which it sets to the record's index.
C16_EmptyPipeline ==
    OuterLen = 0 =>
        /\ pc = "ready" =>
              \A sf \in SUBSET PlainStateNames, df \in SUBSET DataNames, sized \in BOOLEAN :
                  ~ValidateCall([heap EXCEPT ![ArgStateRef] = sf, ![ArgDataRef] = df], Outer, ArgStateRef, ArgDataRef, sized).err.raised
        /\ pc # "raised"
        /\ Positions({"before", "after"}) = {}
        /\ Positions({"record"}) # {} =>
              state = DictSet(WithLength(rargs.state), OuterStepKey, Cardinality(Positions({"record"})) - 1)
        /\ Cardinality(Positions({"record"})) - Cardinality(Positions({"sink"})) \in {0, 1}
        /\ pc = "returned" =>
              /\ Cardinality(Positions({"record"})) = OuterRecords
              /\ Cardinality(Positions({"sink"})) = OuterRecords

\* A validated run of the empty pipeline over three records has returned;
\* the caller's state had a key of its own.
C16_Witness ==
    /\ OuterLen = 0
    /\ pc = "returned"
    /\ rargs.validate
    /\ OuterRecords = 3
    /\ "x" \in DOMAIN rargs.state
    /\ state[OuterStepKey] = 2
    /\ state["x"] = CallerValue

\* C19: run writes only the step key and, when the loader is sized, the
\* count key: every other key of state is there with the value the caller
\* gave it, no key is removed or added, with a loader that is not sized the
\* count key is as the caller left it (absent, or its value), and the step
\* key differs from the caller's only once a record has been pulled.
C19_RunWritesOnlyItsKeys ==
    pc \in {"running", "returned", "raised"} =>
        /\ DOMAIN rargs.state \subseteq DOMAIN state
        /\ \A k \in DOMAIN state \ {OuterStepKey, NumKey(OuterStepKey)} :
              k \in DOMAIN rargs.state /\ state[k] = rargs.state[k]
        /\ ~IsSized(Outer) =>
              /\ NumKey(OuterStepKey) \in DOMAIN state => NumKey(OuterStepKey) \in DOMAIN rargs.state
              /\ NumKey(OuterStepKey) \in DOMAIN state => state[NumKey(OuterStepKey)] = rargs.state[NumKey(OuterStepKey)]
        /\ Positions({"record"}) = {} =>
              /\ OuterStepKey \in DOMAIN state => OuterStepKey \in DOMAIN rargs.state
              /\ OuterStepKey \in DOMAIN state => state[OuterStepKey] = rargs.state[OuterStepKey]

\* A run over a loader without length has returned after three records; the
\* caller's state had the count key and a key of its own, both as they were.
C19_Witness ==
    /\ pc = "returned"
    /\ ~IsSized(Outer)
    /\ OuterRecords = 3
    /\ DOMAIN rargs.state = {"x", NumKey(OuterStepKey)}
    /\ state = DictSet(rargs.state, OuterStepKey, 2)
    /\ state[NumKey(OuterStepKey)] = CallerValue

\* C3: once a middleware has raised the abort signal while record k was being
\* processed, nothing but on_finish hooks and the return of run follows: no
\* record is pulled or processed any more, the records pulled are the k + 1
\* first, no middleware code has run for a step index above k, state's step
\* key stays k, and run ends by returning, not by raising.
C3_AbortStopsRun ==
    \A j \in Positions({"abort"}) :
        /\ \A m \in (j + 1)..Len(trace) : trace[m].ev \in {"on_finish", "return"}
        /\ Cardinality(Positions({"record"})) = trace[j].step + 1
        /\ \A m \in Positions(ChainKinds) : trace[m].step <= trace[j].step
        /\ state[OuterStepKey] = trace[j].step
        /\ pc \in {"running", "returned"}
        /\ exc = ""
        /\ stack = <<>> => pc = "returned"

\* An abort raised by the first of two middlewares after its next_step has
\* returned, on the second of three records; the run has returned.
C3_Witness ==
    /\ pc = "returned"
    /\ OuterLen = 2
    /\ OuterRecords = 3
    /\ \E j \in Positions({"abort"}) : trace[j].step = 1 /\ trace[j].i = 0 /\ trace[j - 1].ev = "after"

\* C4: when a middleware raises the skip signal while record k is being
\* processed, nothing more runs for record k (no later middleware, no code
\* after next_step of an earlier one): the next thing is the pull of record
\* k + 1, written as step index k + 1, or the end of the loop when record k
\* was the last; and a run without abort still pulls all the records and gives
\* each to the first middleware.
C4_SkipAbandonsOneRecord ==
    /\ \A j \in Positions({"skip"}) :
          j < Len(trace) =>
              IF trace[j].step + 1 < OuterRecords
              THEN trace[j + 1].ev = "record" /\ trace[j + 1].step = trace[j].step + 1 /\ state[OuterStepKey] >= trace[j].step + 1
              ELSE trace[j + 1].ev \in {"on_finish", "return"}
    /\ (pc = "returned" /\ Positions({"abort"}) = {}) =>
          /\ Cardinality(Positions({"record"})) = OuterRecords
          /\ OuterLen > 0 => \A k \in 0..(OuterRecords - 1) : \E m \in Positions({"before"}) : trace[m].i = 0 /\ trace[m].step = k

\* A skip raised by the second of two middlewares on the second of three
\* records: the first middleware's code after next_step did not run for it,
\* and the third record went through both middlewares.
C4_Witness ==
    /\ pc = "returned"
    /\ OuterLen = 2
    /\ OuterRecords = 3
    /\ \E j \in Positions({"skip"}) : trace[j].step = 1 /\ trace[j].i = 1
    /\ ChainEvents(1) = <<[ev |-> "before", pipe |-> Outer, i |-> 0, step |-> 1], [ev |-> "before", pipe |-> Outer, i |-> 1, step |-> 1]>>
    /\ Len(ChainEvents(2)) = 4

\* C5: in a run that has returned (loader exhausted, or abort), the trace
\* starts with the on_start hooks of all the middlewares in forward order,
\* before the length is written, before validation and before any record, and
\* ends with their on_finish hooks in forward order, followed only by the
\* return; no hook is called anywhere else.
C5_HooksOnceInOrder ==
    pc = "returned" =>
        /\ Len(trace) >= 2 * OuterLen + 1
        /\ \A m \in 1..OuterLen : trace[m].ev = "on_start" /\ trace[m].i = m - 1
        /\ \A m \in 1..OuterLen : trace[Len(trace) - 1 - OuterLen + m].ev = "on_finish" /\ trace[Len(trace) - 1 - OuterLen + m].i = m - 1
        /\ Cardinality(Positions({"on_start"})) = OuterLen
        /\ Cardinality(Positions({"on_finish"})) = OuterLen

\* A returned run of two middlewares that was aborted.
C5_Witness ==
    /\ pc = "returned"
    /\ OuterLen = 2
    /\ Positions({"abort"}) # {}
    /\ Cardinality(Positions({"on_finish"})) = 2

\* C6: when run is called with validate=True and validation fails, run raises
\* ValidationError to its caller and has not started its loop: no record
\* pulled, no middleware step or sink executed, the step key not written; and
\* with validate=True a record is only ever pulled when every middleware's
\* required state fields are keys of state.
C6_FailedValidationStartsNothing ==
    /\ (pc \in {"running", "returned", "raised"} /\ vres.err.raised) =>
          /\ pc = "raised"
          /\ exc = "ValidationError"
          /\ stack = <<>>
          /\ rargs.validate
          /\ Positions(ChainKinds \cup {"record"}) = {}
          /\ OuterStepKey \in DOMAIN state => (OuterStepKey \in DOMAIN rargs.state /\ state[OuterStepKey] = rargs.state[OuterStepKey])
    /\ (rargs.validate /\ Positions({"record"}) # {}) =>
          \A i \in 1..OuterLen : heap[pipes[Outer].middlewares[i].requires_state_fields] \subseteq DOMAIN state

\* A run over three records whose second middleware requires a state field
\* the caller's state lacks: it has raised, after both on_start hooks.
C6_Witness ==
    /\ pc = "raised"
    /\ OuterRecords = 3
    /\ OuterLen = 2
    /\ vres.err.frames = <<[type |-> SimpleType, index |-> 1]>>
    /\ Cardinality(Positions({"on_start"})) = 2

\* Some processing step of the outer pipeline is in progress.
InChain == pc = "running" /\ \E f \in 1..Len(stack) : stack[f].fn = "step"

\* C7: if the loader is sized, with length N, state[num_<step_name>s] = N all
\* the time the chain is in progress for a record.
C7_CountKeyIsLength ==
    (IsSized(Outer) /\ InChain) =>
        /\ NumKey(OuterStepKey) \in DOMAIN state
        /\ state[NumKey(OuterStepKey)] = OuterRecords

\* The chain in progress for the last of three records, in a run whose caller
\* had another value under the count key.
C7_Witness ==
    /\ IsSized(Outer)
    /\ InChain
    /\ OuterRecords = 3
    /\ state[OuterStepKey] = 2
    /\ NumKey(OuterStepKey) \in DOMAIN rargs.state
    /\ rargs.state[NumKey(OuterStepKey)] # 3

\* The outer middlewares (indexes from 0) one of whose required state fields
\* is no key of state, or one of whose required data fields the loader does
\* not declare.
Unsatisfied ==
    {i \in 0..(OuterLen - 1) :
        \/ ~(heap[pipes[Outer].middlewares[i + 1].requires_state_fields] \subseteq DOMAIN state)
        \/ ~(heap[pipes[Outer].middlewares[i + 1].requires_data_fields_pre] \subseteq heap[loaders[Outer].data_fields])}

\* C21: with validate=False, run makes no contract check: no validation call
\* is made, run never raises ValidationError (nor anything else), and a run
\* that was not aborted pulls every record of the loader, also when a
\* middleware's required fields are absent from state and data.
C21_NoValidateNoCheck ==
    (pc \in {"running", "returned", "raised"} /\ ~rargs.validate) =>
        /\ pc # "raised"
        /\ exc = ""
        /\ vres = NoResult
        /\ Positions({"validated", "validation_failed"}) = {}
        /\ (pc = "returned" /\ Positions({"abort"}) = {}) =>
              /\ Cardinality(Positions({"record"})) = OuterRecords
              /\ \A m \in Positions({"record"}) : Cardinality({r \in Positions({"record"}) : r < m}) = trace[m].step

\* A run with validate=False over three records has returned; its one
\* middleware requires a state field and a data field that are both absent.
C21_Witness ==
    /\ pc = "returned"
    /\ ~rargs.validate
    /\ OuterRecords = 3
    /\ OuterLen = 1
    /\ heap[pipes[Outer].middlewares[1].requires_state_fields] = {"x"}
    /\ heap[pipes[Outer].middlewares[1].requires_data_fields_pre] = {"a"}
    /\ Unsatisfied = {0}
    /\ Cardinality(Positions({"record"})) = 3
    /\ Len(ChainEvents(2)) = 2

\* The records pulled before position m of the trace.
PulledBefore(m) == Cardinality({r \in Positions({"record"}) : r < m})

\* C23: within one run the values written under step_name are 0, 1, 2, ...,
\* one per record pulled, skipped records included, and the chain for the
\* record at position k starts with state[step_name] = k; the key holds the
\* index of the last record pulled from then on: N - 1 after the exhaustion
\* of a loader of N >= 1 records, k after an abort at record k; and with a
\* loader that yields no record the key is never written.
C23_StepIndexSequence ==
    /\ \A m \in Positions({"record"}) :
          /\ trace[m].step = PulledBefore(m)
          /\ m < Len(trace) =>
                /\ trace[m + 1].ev = (IF OuterLen = 0 THEN "sink" ELSE "before")
                /\ trace[m + 1].i = (IF OuterLen = 0 THEN -1 ELSE 0)
                /\ trace[m + 1].step = PulledBefore(m)
    /\ Positions({"record"}) # {} => state[OuterStepKey] = Cardinality(Positions({"record"})) - 1
    /\ (pc = "returned" /\ Positions({"abort"}) = {} /\ OuterRecords >= 1) => state[OuterStepKey] = OuterRecords - 1
    /\ \A j \in Positions({"abort"}) :
          /\ trace[j].step = PulledBefore(j) - 1
          /\ state[OuterStepKey] = PulledBefore(j) - 1
    /\ (OuterRecords = 0 /\ pc \in {"running", "returned", "raised"}) =>
          /\ Positions({"record"}) = {}
          /\ OuterStepKey \in DOMAIN state <=> OuterStepKey \in DOMAIN rargs.state
          /\ OuterStepKey \in DOMAIN state => state[OuterStepKey] = rargs.state[OuterStepKey]

\* A returned run over three records, the second of them skipped, whose
\* caller had another value under the step key.
C23_Witness ==
    /\ pc = "returned"
    /\ OuterRecords = 3
    /\ OuterStepKey \in DOMAIN rargs.state
    /\ \E j \in Positions({"skip"}) : trace[j].step = 1
    /\ Cardinality(Positions({"record"})) = 3
    /\ state[OuterStepKey] = 2

\* C26: when validation fails inside run, every middleware's on_start has
\* been called already, once and in order, and the count key has been written
\* into state for a sized loader; no on_finish is called, so on this path an
\* on_start call is not followed by the matching on_finish call.
C26_FailedValidationAfterHooks ==
    (pc = "raised" /\ exc = "ValidationError") =>
        /\ \A m \in 1..OuterLen : trace[m].ev = "on_start" /\ trace[m].i = m - 1
        /\ Cardinality(Positions({"on_start"})) = OuterLen
        /\ Cardinality(Positions({"sized"})) = 1
        /\ IsSized(Outer) =>
              /\ NumKey(OuterStepKey) \in DOMAIN state
              /\ state[NumKey(OuterStepKey)] = OuterRecords
        /\ trace[Len(trace)].ev = "validation_failed"
        /\ Positions({"validation_failed"}) = {Len(trace)}
        /\ Positions({"on_finish", "return"}) = {}

\* A run of two middlewares over a sized loader of three records has raised
\* ValidationError: both on_start hooks were called and the count key, which
\* the caller's state did not have, is in state.
C26_Witness ==
    /\ pc = "raised"
    /\ exc = "ValidationError"
    /\ IsSized(Outer)
    /\ OuterRecords = 3
    /\ OuterLen = 2
    /\ NumKey(OuterStepKey) \notin DOMAIN rargs.state
    /\ state[NumKey(OuterStepKey)] = 3
    /\ Cardinality(Positions({"on_start"})) = 2
    /\ Positions({"on_finish"}) = {}

\* ------------------------------------------------------------------------
\* A run of a pipeline that embeds another through a PipelineWrapper
\* ------------------------------------------------------------------------

\* The wrapped functions of the embedded pipeline's middlewares: those that
\* raise a signal at one step index, before calling next_step.
InnerWrapBodies == {[SimpleWrap EXCEPT !.signal = sig, !.at = k] : sig \in {"skip", "abort"}, k \in 0..(MaxRecords - 1)}

InitN ==
    \E outerSized \in BOOLEAN, innerSized \in BOOLEAN, m \in {0, MaxRecords - 1}, n \in {0, MaxRecords} :
        InitObjects(NewLoader(outerSized, m, Outer), NewLoader(innerSized, n, Inner))

NextN ==
    \/ AddMiddleware(Outer, SimpleType)
    \/ AddWrapper
    \/ AddMiddleware(Inner, SimpleType)
    \/ \E i \in 1..MaxInner, body \in InnerWrapBodies : DefineWrap(Inner, i, body)
    \/ Construct(OuterStepName)
    \/ StartRun(TRUE)
    \/ OnStart
    \/ WriteLength
    \/ RunValidate
    \/ NextRecord
    \/ LoaderExhausted
    \/ Before
    \/ After
    \/ WrapperRun
    \/ WrapperNext
    \/ EmptySinkStep
    \/ OnFinish
    \/ RunReturns

SpecN == InitN /\ [][NextN]_vars

InnerLen == Len(pipes[Inner].middlewares)

InnerRecords == loaders[Inner].num_steps

InnerStepKey == pipes[Inner].step_name

\* The trace positions of the events of pipeline p of a kind.
PositionsOf(p, kinds) == {m \in Positions(kinds) : trace[m].pipe = p}

\* The outer indexes (from 0) of the PipelineWrappers.
WrapperIndexes == {i - 1 : i \in Wrappers}

\* C11: an abort raised by a middleware of the embedded pipeline ends only the
\* embedded run: what follows is the on_finish hooks of the embedded
\* pipeline's middlewares, in order, the return of the embedded run, the
\* wrapper's call of next_step and the rest of the outer chain; nothing is
\* raised to the caller, and the outer run pulls every one of its records.
C11_InnerAbortEndsInnerRunOnly ==
    /\ \A j \in PositionsOf(Inner, {"abort"}) :
          /\ \A m \in 1..InnerLen :
                j + m <= Len(trace) => (trace[j + m].ev = "on_finish" /\ trace[j + m].pipe = Inner /\ trace[j + m].i = m - 1)
          /\ j + InnerLen + 1 <= Len(trace) => (trace[j + InnerLen + 1].ev = "return" /\ trace[j + InnerLen + 1].pipe = Inner)
          /\ j + InnerLen + 2 <= Len(trace) =>
                (trace[j + InnerLen + 2].ev = "next_step" /\ trace[j + InnerLen + 2].pipe = Outer /\ trace[j + InnerLen + 2].i \in WrapperIndexes)
          /\ j + InnerLen + 3 <= Len(trace) =>
                (trace[j + InnerLen + 3].ev \in {"before", "sink"} /\ trace[j + InnerLen + 3].pipe = Outer)
          /\ pc # "raised"
          /\ exc = ""
    /\ (pc = "returned" /\ PositionsOf(Outer, {"abort"}) = {}) => Cardinality(PositionsOf(Outer, {"record"})) = OuterRecords

\* An embedded run aborted on its second record, for each of the two outer
\* records, in front of another outer middleware; the outer run has returned.
C11_Witness ==
    /\ pc = "returned"
    /\ OuterRecords = 2
    /\ Cardinality(PositionsOf(Inner, {"abort"})) = 2
    /\ \A j \in PositionsOf(Inner, {"abort"}) : trace[j].step = 1
    /\ PositionsOf(Outer, {"before"}) # {}
    /\ \E m \in PositionsOf(Outer, {"before"}) : trace[m].i = 1 /\ trace[m].step = 1 /\ 0 \in WrapperIndexes

\* The position of the wrapper's entry that the call of next_step at m belongs to.
EntryOf(m) == CHOOSE b \in 1..m :
    /\ trace[b].ev = "before" /\ trace[b].pipe = Outer /\ trace[b].i = trace[m].i
    /\ \A y \in (b + 1)..m : ~(trace[y].ev = "before" /\ trace[y].pipe = Outer /\ trace[y].i = trace[m].i)

NoAbort == Positions({"abort"}) = {}

C28_InnerRunKeepsOuterKeys ==
    OuterStepKey # InnerStepKey =>
        /\ \A m \in PositionsOf(Outer, ChainKinds \cup {"next_step"}) :
              trace[m].step = Cardinality({r \in PositionsOf(Outer, {"record"}) : r < m}) - 1
        /\ PositionsOf(Outer, {"record"}) # {} =>
              /\ state[OuterStepKey] = Cardinality(PositionsOf(Outer, {"record"})) - 1
              /\ IsSized(Outer) => state[NumKey(OuterStepKey)] = OuterRecords

\* The outer middleware after the wrapper runs for the second outer record,
\* after two embedded runs of three records each over a sized loader.
C28_Witness ==
    /\ InStep("after")
    /\ Top.pipe = Outer
    /\ Head(Top.chain) = 2
    /\ 0 \in WrapperIndexes
    /\ IsSized(Outer) /\ IsSized(Inner)
    /\ InnerRecords = 3
    /\ Cardinality(PositionsOf(Inner, {"record"})) = 6
    /\ state[InnerStepKey] = 2
    /\ state[NumKey(InnerStepKey)] = 3
    /\ state[OuterStepKey] = 1
    /\ state[NumKey(OuterStepKey)] = 2

\* The wrapper's entries: the positions where the outer chain reaches it.
WrapperEntries == {b \in PositionsOf(Outer, {"before"}) : trace[b].i \in WrapperIndexes}

\* The hook calls of the embedded middleware j between positions b and m.
HooksBetween(ev, j, b, m) == {y \in (b + 1)..(m - 1) : trace[y].ev = ev /\ trace[y].pipe = Inner /\ trace[y].i = j}

\* C31: for an outer run whose chain reaches the PipelineWrapper on M
\* records, every middleware of the embedded pipeline gets on_start M times
\* and on_finish M times: once each per outer record, on_start before and
\* on_finish after the embedded records of that outer record, both before the
\* wrapper calls next_step.  Every hook call of an embedded middleware
\* follows the wrapper's entry with no outer event in between, so the outer
\* on_start and on_finish loops call no embedded hook.
C31_InnerHooksPerOuterRecord ==
    /\ \A m \in PositionsOf(Outer, {"next_step"}) :
          \A j \in 0..(InnerLen - 1) :
              /\ Cardinality(HooksBetween("on_start", j, EntryOf(m), m)) = 1
              /\ Cardinality(HooksBetween("on_finish", j, EntryOf(m), m)) = 1
              /\ \A y \in (EntryOf(m) + 1)..(m - 1) :
                    trace[y].ev = "record" =>
                        /\ \A h \in HooksBetween("on_start", j, EntryOf(m), m) : h < y
                        /\ \A h \in HooksBetween("on_finish", j, EntryOf(m), m) : y < h
    /\ \A y \in PositionsOf(Inner, {"on_start", "on_finish"}) :
          \E b \in WrapperEntries : b < y /\ \A x \in (b + 1)..y : trace[x].pipe = Inner
    /\ pc = "returned" =>
          \A j \in 0..(InnerLen - 1) :
              /\ Cardinality({y \in PositionsOf(Inner, {"on_start"}) : trace[y].i = j}) = Cardinality(WrapperEntries)
              /\ Cardinality({y \in PositionsOf(Inner, {"on_finish"}) : trace[y].i = j}) = Cardinality(WrapperEntries)
              /\ Cardinality(WrapperEntries) = (IF HasWrapper THEN OuterRecords ELSE 0)

\* An outer run of two records has returned; the wrapper, second of the two
\* outer middlewares, embeds one middleware, whose hooks were called twice
\* each, around three embedded records each time.
C31_Witness ==
    /\ pc = "returned"
    /\ OuterLen = 2 /\ 1 \in WrapperIndexes
    /\ InnerLen = 1
    /\ OuterRecords = 2 /\ InnerRecords = 3
    /\ Cardinality(WrapperEntries) = 2
    /\ Cardinality(PositionsOf(Inner, {"on_start"})) = 2
    /\ Cardinality(PositionsOf(Inner, {"on_finish"})) = 2
    /\ Cardinality(PositionsOf(Outer, {"on_start"})) = 2
    /\ Cardinality(PositionsOf(Inner, {"record"})) = 6

\* ------------------------------------------------------------------------
\* A run in which something other than the two signals is raised
\* ------------------------------------------------------------------------

\* The wrapped functions that raise an exception of another class (a failed
\* assert, say) at one step index, and one that aborts.
FailingWrapBodies ==
    {[SimpleWrap EXCEPT !.signal = "fail", !.at = k, !.when = w] : k \in 0..(MaxRecords - 1), w \in {"before", "after"}}
    \cup {[SimpleWrap EXCEPT !.signal = "abort", !.at = 1]}

InitF ==
    \E sized \in BOOLEAN, k \in {-1, 0, MaxRecords - 1} :
        InitObjects(WithMismatch(NewLoader(sized, MaxRecords, Outer), k), NewLoader(TRUE, 0, Inner))

NextF ==
    \/ AddMiddleware(Outer, SimpleType)
    \/ \E i \in 1..MaxMw, body \in FailingWrapBodies : DefineWrap(Outer, i, body)
    \/ Construct(DefaultStepName)
    \/ \E validate \in BOOLEAN : StartRun(validate)
    \/ OnStart
    \/ WriteLength
    \/ RunValidate
    \/ NextRecord
    \/ LoaderFails
    \/ LoaderExhausted
    \/ Before
    \/ After
    \/ EmptySinkStep
    \/ OnFinish
    \/ RunReturns

SpecF == InitF /\ [][NextF]_vars

\* The indexes of the outer loader's batches whose length is not the number
\* of its data fields.
Mismatched == {k \in 0..(OuterRecords - 1) : Len(loaders[Outer].batches[k + 1]) # Len(loaders[Outer].data_fields_seq)}

\* C12: when a middleware raises something other than abort or skip while a
\* record is processed, or the loader raises while it is pulled (a batch of
\* another length than the data fields), run ends there: the exception is
\* what the caller of run gets, nothing follows it (no record, no middleware
\* code, no on_finish hook); and on_finish hooks run only after the loader
\* was exhausted or an abort was raised.
C12_FailurePropagates ==
    /\ \A j \in Positions({"fail", "loader_failed"}) :
          /\ j = Len(trace)
          /\ pc = "raised"
          /\ stack = <<>>
          /\ exc = (IF trace[j].ev = "fail" THEN "Error" ELSE "ValueError")
          /\ Positions({"on_finish", "return"}) = {}
          /\ Cardinality(Positions({"record"})) = (IF trace[j].ev = "fail" THEN trace[j].step + 1 ELSE CHOOSE k \in Mismatched : \A q \in Mismatched : k <= q)
    /\ Positions({"on_finish"}) # {} =>
          \/ Positions({"abort"}) # {}
          \/ Cardinality(Positions({"record"})) = OuterRecords

\* The first of two middlewares raised after its next_step had returned, on
\* the second record: both on_start hooks had run, no on_finish hook has.
C12_Witness ==
    /\ pc = "raised"
    /\ exc = "Error"
    /\ OuterLen = 2
    /\ Cardinality(Positions({"on_start"})) = 2
    /\ Positions({"on_finish"}) = {}
    /\ trace[Len(trace)] = [ev |-> "fail", pipe |-> Outer, i |-> 0, step |-> 1]
    /\ trace[Len(trace) - 1].ev = "after"

\* ------------------------------------------------------------------------
\* A run over a source wrapped by wrap_iterable
\* ------------------------------------------------------------------------

\* The field-name lists and the tuples of the source.
FieldLists == {<<"a">>, <<"a", "b">>, <<"b", "a">>, <<"a", "a">>}

BatchShapes == {<<1>>, <<1, 2>>, <<2, 1>>}

InitL ==
    \E sized \in BOOLEAN, names \in FieldLists, batches \in [1..MaxRecords -> BatchShapes] :
        InitObjects(WrapIterable(sized, batches, names, Outer), NewLoader(TRUE, 0, Inner))

NextL ==
    \/ AddMiddleware(Outer, SimpleType)
    \/ Construct(DefaultStepName)
    \/ StartRun(FALSE)
    \/ OnStart
    \/ WriteLength
    \/ RunValidate
    \/ NextRecord
    \/ LoaderFails
    \/ LoaderExhausted
    \/ Before
    \/ After
    \/ EmptySinkStep
    \/ OnFinish
    \/ RunReturns

SpecL == InitL /\ [][NextL]_vars

\* The names given to wrap_iterable, the source's tuple of index k, and the
\* index and the mapping of the record the run is processing.
Names == loaders[Outer].data_fields_seq

Batch(k) == loaders[Outer].batches[k + 1]

Current == stack[1].step - 1

Record == stack[1].data

\* The records come in the source's order, each with the supplied names as
\* its keys; a tuple of another length than the names raises ValueError when
\* it is reached, after the records before it went through the chain; and a
\* run that returns has pulled every tuple.
YieldsInOrder ==
    /\ InChain =>
          /\ Cardinality(Positions({"record"})) = Current + 1
          /\ \A k \in 0..Current : k \notin Mismatched
          /\ DOMAIN Record = Range(Names)
    /\ pc = "raised" =>
          /\ exc = "ValueError"
          /\ Cardinality(Positions({"record"})) \in Mismatched
          /\ \A k \in Mismatched : Cardinality(Positions({"record"})) <= k
          /\ Cardinality(Positions({"sink"})) = Cardinality(Positions({"record"}))
    /\ pc = "returned" =>
          /\ Mismatched = {}
          /\ Cardinality(Positions({"record"})) = OuterRecords

InitS ==
    \E sized \in BOOLEAN, names \in {<<>>, <<"a">>} :
        InitObjects(WrapIterable(sized, [k \in 1..(MaxRecords - 1) |-> [i \in 1..Len(names) |-> 1]], names, Outer), NewLoader(TRUE, 0, Inner))

NextS ==
    \/ AddMiddleware(Outer, SimpleType)
    \/ \E i \in 1..MaxMw, name \in {"x", NumKey(DefaultStepName)} : Declare(Outer, i, "requires_state_fields", name)
    \/ \E i \in 1..MaxMw, field \in {"requires_data_fields_pre", "requires_data_fields_post"} : Declare(Outer, i, field, "a")
    \/ \E i \in 1..MaxMw, field \in {"provides_data_fields_pre", "provides_data_fields_post"} : Declare(Outer, i, field, "a")
    \/ \E i \in 1..MaxMw : DefineOnStart(Outer, i, "x")
    \/ DeclareState("x")
    \/ Construct(DefaultStepName)
    \/ \E validate \in BOOLEAN : StartRun(validate)
    \/ OnStart
    \/ WriteLength
    \/ RunValidate
    \/ NextRecord
    \/ LoaderExhausted
    \/ Before
    \/ After
    \/ EmptySinkStep
    \/ OnFinish
    \/ RunReturns

SpecS == InitS /\ [][NextS]_vars

\* C25: validation is sound for execution.  In a run whose validation
\* succeeded, over records that hold the loader's declared fields, with
\* middlewares that call next_step once, write the fields they provide
\* (pre before the call, post after it) and remove no key: a middleware's
\* required state fields are keys of state all the time its code runs, its
\* required pre fields are in the record when its code before next_step
\* starts, and its required post fields when its code after next_step starts.
C25_ValidationSound ==
    (rargs.validate /\ pc = "running" /\ stack # <<>> /\ Top.fn = "step" /\ Top.chain # EmptySink) =>
        LET mw == pipes[Outer].middlewares[Head(Top.chain)]
        IN /\ heap[mw.requires_state_fields] \subseteq DOMAIN state
           /\ Top.at = "before" => heap[mw.requires_data_fields_pre] \subseteq DOMAIN Record
           /\ Top.at = "after" => heap[mw.requires_data_fields_post] \subseteq DOMAIN Record

\* The code after next_step of the first of two middlewares starts, for the
\* second record of a loader without fields: the field it requires then was
\* written by the second middleware, which provides it after its next_step.
C25_Witness ==
    /\ rargs.validate
    /\ InStep("after")
    /\ Head(Top.chain) = 1
    /\ OuterLen = 2
    /\ Names = <<>>
    /\ Current = 1
    /\ heap[pipes[Outer].middlewares[1].requires_data_fields_post] = {"a"}
    /\ heap[pipes[Outer].middlewares[2].provides_data_fields_post] = {"a"}
    /\ DOMAIN Record = {"a"}

\* The state keys that the on_start hooks of the outer middlewares write.
HookKeys == UNION {pipes[Outer].middlewares[i].on_start : i \in 1..OuterLen}

\* C30: every on_start hook runs before validation, which reads the keys of
\* state as they are then: a key written by the on_start hook of any
\* middleware is an available state field in the check of every middleware,
\* those of lower index included, and is never reported missing.
C30_OnStartKeysAvailable ==
    (rargs.validate /\ Positions({"validated", "validation_failed"}) # {}) =>
        /\ Cardinality(Positions({"on_start"})) = OuterLen
        /\ \A m \in Positions({"on_start"}), v \in Positions({"validated", "validation_failed"}) : m < v
        /\ \A k \in 1..Len(vres.log) : HookKeys \subseteq vres.log[k].state
        /\ vres.err.missing \cap HookKeys = {}

\* A run has passed validation: its first middleware requires a state field
\* that the caller's state lacks and the second middleware's on_start writes.
C30_Witness ==
    /\ rargs.validate
    /\ Positions({"validated"}) # {}
    /\ OuterLen = 2
    /\ heap[pipes[Outer].middlewares[1].requires_state_fields] = {"x"}
    /\ pipes[Outer].middlewares[1].on_start = {}
    /\ pipes[Outer].middlewares[2].on_start = {"x"}
    /\ "x" \notin DOMAIN rargs.state
    /\ ~vres.err.raised

====
